---- MODULE Spec2Model ----
(***************************************************************************)
(* Model of the freesia router: the pattern compiler (createRegExp), the   *)
(* routes built on it (createRoute), the switcher (createSwitcher) and the *)
(* request scope in which routes read the request method (useURL).         *)
(*                                                                         *)
(* A string is a sequence of one-character strings, so that the textual    *)
(* rewriting done by createRegExp and the matching done by RegExp.exec are *)
(* computed character by character, as the code computes them.             *)
(***************************************************************************)
EXTENDS Integers, Sequences, FiniteSets, TLC

\* ------------------------------------------------------------------ strings

\* The value of an absent result, an unset capture or an unset field, and
\* the other value the operator ?? takes for absent.
Undefined == <<"undefined">>
Null == <<"null">>
Nullish(v) == v = Undefined \/ v = Null

\* Every operator below takes the values it uses more than once as
\* parameters, so a value is computed where it is passed and nowhere else.

\* String.prototype.slice(n): the string without its first n characters.
Slice(s, n) == IF n >= Len(s) THEN <<>> ELSE SubSeq(s, n + 1, Len(s))

\* The least and the greatest member of a non-empty set of numbers.
Least(S) == CHOOSE j \in S : \A k \in S : j <= k
Greatest(S) == CHOOSE j \in S : \A k \in S : j >= k

\* The first index of character a in s at or after i, or 0.
IndexIn(S) == IF S = {} THEN 0 ELSE Least(S)
IndexOf(s, a, i) == IndexIn({j \in i..Len(s) : s[j] = a})

\* s with the character at index k replaced by b (k = 0: s itself).
ReplaceAt(s, k, b) ==
    IF k = 0 THEN s
    ELSE SubSeq(s, 1, k - 1) \o <<b>> \o SubSeq(s, k + 1, Len(s))

\* String.prototype.replace(a, b) with a one-character string a: the first
\* occurrence only.
ReplaceFirst(s, a, b) == ReplaceAt(s, IndexOf(s, a, 1), b)

\* String.prototype.endsWith("/").
EndsWithSlash(s) == Len(s) > 0 /\ s[Len(s)] = "/"

\* The letters the model uses, with their lower-case forms (flag "i").
Upper == {"A", "B", "H"}
ToLower(c) ==
    CASE c = "A" -> "a"
      [] c = "B" -> "b"
      [] c = "H" -> "h"
      [] OTHER -> c
Letters == {"a", "b", "c", "d", "e", "f", "g", "h", "i", "j", "k", "l", "m", "n", "o", "p",
            "q", "r", "s", "t", "u", "v", "w", "x", "y", "z"} \cup Upper

\* ------------------------------------------- regular expressions: the parser

\* The pattern grammar of ECMAScript (without the "u" flag, so "{", "}" and
\* "]" standing alone are literals), for the characters the model uses:
\* literals, ".", classes, escapes, "^", "$", the quantifiers "*", "+", "?"
\* and their lazy forms, capturing, named and non-capturing groups.

\* The result of a failed parse: new RegExp raises a SyntaxError.
SyntaxError == [ok |-> FALSE, nodes |-> <<>>, pos |-> 0, names |-> {}, closed |-> FALSE]

\* The characters of a group name, from position i up to the closing ">":
\* the index of that ">", or 0 when the name is empty, holds a character
\* that is no letter, or is not closed.
RECURSIVE GroupNameEnd(_, _, _)
GroupNameEnd(src, i, first) ==
    IF i > Len(src) THEN 0
    ELSE IF src[i] = ">" THEN (IF i = first THEN 0 ELSE i)
    ELSE IF src[i] \in Letters THEN GroupNameEnd(src, i + 1, first)
    ELSE 0

\* A character class whose body starts at position i: the index of its
\* closing "]", or 0 when it is not closed.
RECURSIVE ClassEnd(_, _)
ClassEnd(src, i) ==
    IF i > Len(src) THEN 0
    ELSE IF src[i] = "]" THEN i
    ELSE IF src[i] = "\\" THEN ClassEnd(src, i + 2)
    ELSE ClassEnd(src, i + 1)

\* The members of a character class body (escapes give the escaped character).
RECURSIVE ClassChars(_, _, _)
ClassChars(src, i, last) ==
    IF i > last THEN {}
    ELSE IF src[i] = "\\" /\ i < last THEN {src[i + 1]} \cup ClassChars(src, i + 2, last)
    ELSE {src[i]} \cup ClassChars(src, i + 1, last)

\* The quantifier at position i: its length in characters (0: there is
\* none; 2: "?" follows it, and it is lazy).
QuantifierLen(src, i) ==
    IF i > Len(src) \/ src[i] \notin {"*", "+", "?"} THEN 0
    ELSE IF i + 1 <= Len(src) /\ src[i + 1] = "?" THEN 2
    ELSE 1

\* The atom `node` under the quantifier at position i.
Quantified(src, i, node) ==
    IF QuantifierLen(src, i) = 0 THEN node
    ELSE [t |-> "rep", body |-> node,
          min |-> IF src[i] = "+" THEN 1 ELSE 0,
          max |-> IF src[i] = "?" THEN 1 ELSE -1,
          greedy |-> QuantifierLen(src, i) = 1]

RECURSIVE ParseSeq(_, _, _, _)

\* The atom `node` ends before position j: its quantifier is read, the term
\* is appended, and the sequence goes on.
AfterAtom(src, acc, names, node, j) ==
    ParseSeq(src, j + QuantifierLen(src, j), Append(acc, Quantified(src, j, node)), names)

\* A group whose body was parsed as `inner`.
CloseGroup(src, acc, name, inner) ==
    IF ~inner.ok \/ ~inner.closed THEN SyntaxError                 \* Unterminated group
    ELSE AfterAtom(src, acc, inner.names,
                   [t |-> "group", name |-> name, body |-> inner.nodes], inner.pos + 1)

\* "(?<" at position i, the name ending at nameEnd.
NamedGroupOf(src, acc, names, name, bodyAt) ==
    IF name \in names THEN SyntaxError                      \* Duplicate capture group name
    ELSE CloseGroup(src, acc, name, ParseSeq(src, bodyAt, <<>>, names \cup {name}))
NamedGroup(src, i, acc, names, nameEnd) ==
    IF nameEnd = 0 THEN SyntaxError                         \* Invalid capture group name
    ELSE NamedGroupOf(src, acc, names, SubSeq(src, i + 3, nameEnd - 1), nameEnd + 1)

\* "(" at position i.
Group(src, i, acc, names) ==
    IF ~(i + 1 <= Len(src) /\ src[i + 1] = "?")
    THEN CloseGroup(src, acc, <<>>, ParseSeq(src, i + 1, <<>>, names))
    ELSE IF i + 2 > Len(src) THEN SyntaxError                      \* Invalid group
    ELSE IF src[i + 2] = ":"
    THEN CloseGroup(src, acc, <<>>, ParseSeq(src, i + 3, <<>>, names))
    ELSE IF src[i + 2] = "<" THEN NamedGroup(src, i, acc, names, GroupNameEnd(src, i + 3, i + 3))
    ELSE SyntaxError                                               \* Invalid group

\* "[" at position i: the class body starts at `from` and ends before `last`.
ClassOf(src, acc, names, neg, from, last) ==
    IF last = 0 THEN SyntaxError                            \* Unterminated character class
    ELSE AfterAtom(src, acc, names,
                   [t |-> "class", neg |-> neg, cs |-> ClassChars(src, from, last - 1)],
                   last + 1)
ClassFrom(src, acc, names, neg, from) ==
    ClassOf(src, acc, names, neg, from, ClassEnd(src, from))
Class(src, i, acc, names) ==
    IF i + 1 <= Len(src) /\ src[i + 1] = "^"
    THEN ClassFrom(src, acc, names, TRUE, i + 2)
    ELSE ClassFrom(src, acc, names, FALSE, i + 1)

\* A sequence of terms from position i up to the end or to a ")".
ParseSeq(src, i, acc, names) ==
    IF i > Len(src)
    THEN [ok |-> TRUE, nodes |-> acc, pos |-> i, names |-> names, closed |-> FALSE]
    ELSE CASE src[i] = ")" ->
                [ok |-> TRUE, nodes |-> acc, pos |-> i, names |-> names, closed |-> TRUE]
           [] src[i] = "(" -> Group(src, i, acc, names)
           [] src[i] = "[" -> Class(src, i, acc, names)
           [] src[i] = "\\" ->
                IF i + 1 > Len(src) THEN SyntaxError               \* \ at end of pattern
                ELSE AfterAtom(src, acc, names, [t |-> "char", c |-> src[i + 1]], i + 2)
           [] src[i] \in {"*", "+", "?"} -> SyntaxError            \* Nothing to repeat
           [] src[i] = "." -> AfterAtom(src, acc, names, [t |-> "any"], i + 1)
           [] src[i] = "^" -> ParseSeq(src, i + 1, Append(acc, [t |-> "bol"]), names)
           [] src[i] = "$" -> ParseSeq(src, i + 1, Append(acc, [t |-> "eol"]), names)
           [] OTHER -> AfterAtom(src, acc, names, [t |-> "char", c |-> src[i]], i + 1)

\* new RegExp(source): the parsed pattern, or a SyntaxError.
Whole(p) == IF p.ok /\ ~p.closed THEN p ELSE SyntaxError           \* Unmatched ')'
ParsePattern(src) == Whole(ParseSeq(src, 1, <<>>, {}))

\* ------------------------------------------- regular expressions: the matcher

Failure == [ok |-> FALSE]

CharEq(a, b, ignoreCase) ==
    IF ignoreCase THEN ToLower(a) = ToLower(b) ELSE a = b

\* Whether the one-character term `node` accepts character ch.
Accepts(node, ch, ignoreCase) ==
    CASE node.t = "char" -> CharEq(node.c, ch, ignoreCase)
      [] node.t = "any" -> TRUE
      [] node.t = "class" -> (\E k \in node.cs : CharEq(k, ch, ignoreCase)) # node.neg
      [] OTHER -> FALSE

\* How many characters of s from position i on the one-character term `node`
\* accepts in a row.
RunLength(node, s, i, ignoreCase) ==
    Least({k \in 0..(Len(s) - i + 1) :
                i + k > Len(s) \/ ~Accepts(node, s[i + k], ignoreCase)})

\* The repetition counts a quantifier allows among the first n.
Counts(r, n) ==
    {k \in r.min..n : r.max = -1 \/ k <= r.max}

\* The backtracking matcher: `todo` is the continuation, a sequence of terms
\* still to match from position i (1-based) of s; alternatives are tried in
\* the order ECMAScript gives them (greedy: one more repetition first; lazy:
\* stop first), and the first complete match is the result. For a quantified
\* one-character term that order is by the number of characters taken: the
\* greatest number after which the rest matches (greedy), or the least
\* (lazy).
RECURSIVE Run(_, _, _, _, _)
Run(todo, s, i, caps, ignoreCase) ==
    IF todo = <<>> THEN [ok |-> TRUE, end |-> i, caps |-> caps]
    ELSE
    LET h == Head(todo)
        rest == Tail(todo)
    IN  CASE h.t \in {"char", "any", "class"} ->
                IF i <= Len(s) /\ Accepts(h, s[i], ignoreCase)
                THEN Run(rest, s, i + 1, caps, ignoreCase) ELSE Failure
          [] h.t = "bol" -> IF i = 1 THEN Run(rest, s, i, caps, ignoreCase) ELSE Failure
          [] h.t = "eol" -> IF i = Len(s) + 1 THEN Run(rest, s, i, caps, ignoreCase) ELSE Failure
          [] h.t = "group" ->
                Run(h.body \o <<[t |-> "close", name |-> h.name, start |-> i]>> \o rest,
                    s, i, caps, ignoreCase)
          [] h.t = "close" ->
                Run(rest, s, i,
                    IF h.name = <<>> THEN caps
                    ELSE [caps EXCEPT ![h.name] = SubSeq(s, h.start, i - 1)],
                    ignoreCase)
          [] h.t = "rep" /\ h.body.t # "group" ->
                LET taken == {k \in Counts(h, RunLength(h.body, s, i, ignoreCase)) :
                                Run(rest, s, i + k, caps, ignoreCase).ok}
                IN  IF taken = {} THEN Failure
                    ELSE Run(rest, s,
                             i + (IF h.greedy THEN Greatest(taken) ELSE Least(taken)),
                             caps, ignoreCase)
          [] h.t = "rep" /\ h.body.t = "group" ->
                Run(<<[t |-> "iter", rep |-> h, count |-> 0, last |-> 0]>> \o rest,
                    s, i, caps, ignoreCase)
          [] h.t = "iter" ->
                LET r == h.rep
                    \* an iteration that matched the empty string, once the
                    \* minimum is met, is not considered
                    empty == h.count > r.min /\ i = h.last
                    canMore == r.max = -1 \/ h.count < r.max
                    canStop == h.count >= r.min
                    more == Run(<<r.body, [h EXCEPT !.count = h.count + 1, !.last = i]>> \o rest,
                                s, i, caps, ignoreCase)
                    stop == Run(rest, s, i, caps, ignoreCase)
                IN  IF empty THEN Failure
                    ELSE IF r.greedy
                    THEN (IF canMore /\ more.ok THEN more
                          ELSE IF canStop THEN stop ELSE Failure)
                    ELSE (IF canStop /\ stop.ok THEN stop
                          ELSE IF canMore THEN more ELSE Failure)
          [] OTHER -> Failure

\* The match of the pattern that starts at position i (1-based) of s.
MatchAt(nodes, names, s, i, ignoreCase) ==
    Run(nodes, s, i, [n \in names |-> Undefined], ignoreCase)

\* The first position at or after i where the pattern matches, with the
\* match; sticky tries position i only.
Found(m, i) == [ok |-> TRUE, start |-> i, end |-> m.end, caps |-> m.caps]
FirstOf(starts, nodes, names, s, ignoreCase) ==
    IF starts = {} THEN Failure
    ELSE Found(MatchAt(nodes, names, s, Least(starts), ignoreCase), Least(starts))
Search(nodes, names, s, i, ignoreCase, sticky) ==
    FirstOf({j \in i..(IF sticky THEN i ELSE Len(s) + 1) :
                MatchAt(nodes, names, s, j, ignoreCase).ok},
            nodes, names, s, ignoreCase)

\* ---------------------------------------------------------- createRegExp

\* The replacement functions of createRegExp, one per marker kind.
\* The first as it would be with "." in place of "[^/]".
AngleReplacementAny(matched) ==
    <<"(", "?">> \o Slice(matched, 1) \o <<".", "+", "?", ")">>
\* (matched) => `(?${matched.slice(1)}[^/]+?)`
AngleReplacement(matched) ==
    <<"(", "?">> \o Slice(matched, 1) \o <<"[", "^", "/", "]", "+", "?", ")">>
\* (matched) => `(?${matched.slice(1).replace("{", "<").replace("}", ">")}.+)`
BraceReplacement(matched) ==
    <<"(", "?">> \o ReplaceFirst(ReplaceFirst(Slice(matched, 1), "{", "<"), "}", ">")
        \o <<".", "+", ")">>
\* (matched) => `((/(?${matched.slice(2).replace("(", "<").replace(")", ">")}.*))?)`
ParenReplacement(matched) ==
    <<"(", "(", "/", "(", "?">>
        \o ReplaceFirst(ReplaceFirst(Slice(matched, 2), "(", "<"), ")", ">")
        \o <<".", "*", ")", ")", "?", ")">>
\* The last as it would be with "+" in place of "*".
BracketReplacementPlus(matched) ==
    <<"(", "?">> \o ReplaceFirst(ReplaceFirst(Slice(matched, 1), "[", "<"), "]", ">")
        \o <<".", "+", ")">>
\* (matched) => `(?${matched.slice(1).replace("[", "<").replace("]", ">")}.*)`
BracketReplacement(matched) ==
    <<"(", "?">> \o ReplaceFirst(ReplaceFirst(Slice(matched, 1), "[", "<"), "]", ">")
        \o <<".", "*", ")">>
\* The replacement strings of the older router: "(?$&.+?)", where $& is the
\* text matched, and "]>.+".
ParamReplacement(matched) == <<"(", "?">> \o matched \o <<".", "+", "?", ")">>
GreedyReplacement(matched) == <<"]", ">", ".", "+">>
Replacement(kind, matched) ==
    CASE kind = "angle" -> AngleReplacement(matched)
      [] kind = "brace" -> BraceReplacement(matched)
      [] kind = "paren" -> ParenReplacement(matched)
      [] kind = "bracket" -> BracketReplacement(matched)
      [] kind = "param" -> ParamReplacement(matched)
      [] kind = "greedy" -> GreedyReplacement(matched)

\* String.prototype.replaceAll(re, fn) for a global RegExp whose parsed
\* pattern is `nodes`: every leftmost match from position pos on, left to
\* right and without overlap, is replaced by Replacement(kind, match).
RECURSIVE ReplaceFrom(_, _, _, _)
Replaced(m, nodes, s, pos, kind) ==
    IF ~m.ok THEN SubSeq(s, pos, Len(s))
    ELSE IF m.end = m.start
    THEN (IF m.start > Len(s) THEN SubSeq(s, pos, Len(s))
          ELSE SubSeq(s, pos, m.start) \o ReplaceFrom(nodes, s, m.start + 1, kind))
    ELSE SubSeq(s, pos, m.start - 1)
            \o Replacement(kind, SubSeq(s, m.start, m.end - 1))
            \o ReplaceFrom(nodes, s, m.end, kind)
ReplaceFrom(nodes, s, pos, kind) ==
    Replaced(Search(nodes, {}, s, pos, FALSE, FALSE), nodes, s, pos, kind)

\* The four marker expressions of createRegExp, with their replacement, in
\* the order the code applies them.
AngleRe   == <<":", "<", ".", "+", "?", ">">>                                  \* /:<.+?>/g
BraceRe   == <<":", "\\", "{", ".", "+", "?", "\\", "}">>                      \* /:\{.+?\}/g
ParenRe   == <<"\\", "/", ":", "\\", "(", "?", ".", "+", "?", "\\", ")">>      \* /\/:\(?.+?\)/g
BracketRe == <<":", "\\", "[", ".", "+", "?", "\\", "]">>                      \* /:\[.+?\]/g
Passes ==
    << [re |-> ParsePattern(AngleRe).nodes, kind |-> "angle"],
       [re |-> ParsePattern(BraceRe).nodes, kind |-> "brace"],
       [re |-> ParsePattern(ParenRe).nodes, kind |-> "paren"],
       [re |-> ParsePattern(BracketRe).nodes, kind |-> "bracket"] >>

\* pattern.replaceAll(...).replaceAll(...)...: the passes from the k-th on.
RECURSIVE ReplaceAll(_, _, _)
ReplaceAll(s, passes, k) ==
    IF k > Len(passes) THEN s
    ELSE ReplaceAll(ReplaceFrom(passes[k].re, s, 1, passes[k].kind), passes, k + 1)

\* The pattern after the four rewritings.
parsedPattern(pattern) == ReplaceAll(pattern, Passes, 1)

\* The source text as it would be without the "$" at the end.
AnchoredOpen(parsed) ==
    <<"^">> \o parsed \o (IF EndsWithSlash(parsed) THEN <<>> ELSE <<"(", "/", "?", ")">>)

\* The source text as it would be without the optional trailing "/".
AnchoredStrict(parsed) == <<"^">> \o parsed \o <<"$">>

\* The source text handed to new RegExp: anchored, with an optional trailing
\* "/" when the rewritten pattern does not end in one.
Anchored(parsed) ==
    <<"^">> \o parsed
        \o (IF EndsWithSlash(parsed) THEN <<>> ELSE <<"(", "/", "?", ")">>)
        \o <<"$">>
RegExpSource(pattern) == Anchored(parsedPattern(pattern))

\* The flag characters RegExp accepts; a flag given twice or any other
\* character makes new RegExp raise.
KnownFlags == {"d", "g", "i", "m", "s", "u", "y"}
ValidFlags(flags) ==
    /\ \A k \in 1..Len(flags) : flags[k] \in KnownFlags
    /\ \A j, k \in 1..Len(flags) : j # k => flags[j] # flags[k]
HasFlag(flags, f) == \E k \in 1..Len(flags) : flags[k] = f

DefaultFlags == <<"i">>

\* new RegExp(source, flags): the RegExp object (its source, its compiled
\* pattern, its flags and lastIndex), or threw = TRUE when it raises.
RegExpOf(source, compiled, flags) ==
    [threw |-> ~(ValidFlags(flags) /\ compiled.ok),
     source |-> source, nodes |-> compiled.nodes, names |-> compiled.names,
     flags |-> flags, lastIndex |-> 0]
NewRegExp(source, flags) == RegExpOf(source, ParsePattern(source), flags)

\* createRegExp(pattern, flags).
createRegExp(pattern, flags) == NewRegExp(RegExpSource(pattern), flags)

\* The older router's createRegExp(pattern): "<name>" becomes a lazy named
\* group, "<[name]>" a greedy one; no optional "/" at the end, no flags.
ParamRe  == <<"<", ".", "+", "?", ">">>                                        \* /<.+?>/g
GreedyRe == <<"\\", "]", "\\", ">", "\\", ".", "\\", "+", "\\", "?">>          \* /\]\>\.\+\?/g
PassesOlder ==
    << [re |-> ParsePattern(ParamRe).nodes, kind |-> "param"],
       [re |-> ParsePattern(GreedyRe).nodes, kind |-> "greedy"] >>
\* .replace(/\[|\]/g, ""): the string without its square brackets.
NoSquareBrackets(s) == SelectSeq(s, LAMBDA c : c \notin {"[", "]"})
parsedPatternOlder(pattern) == NoSquareBrackets(ReplaceAll(pattern, PassesOlder, 1))
createRegExpOlder(pattern) ==
    NewRegExp(<<"^">> \o parsedPatternOlder(pattern) \o <<"$">>, <<>>)

\* new URL("http://localhost" + ("/" unless url starts with one) + url)
\* .pathname, for the characters the model uses: the url up to its query or
\* fragment, with "<", ">", "{" and "}" percent-encoded.
PercentEncoded(c) ==
    CASE c = "<" -> <<"%", "3", "C">>
      [] c = ">" -> <<"%", "3", "E">>
      [] c = "{" -> <<"%", "7", "B">>
      [] c = "}" -> <<"%", "7", "D">>
      [] OTHER -> <<c>>
RECURSIVE Encoded(_, _, _)
Encoded(s, from, to) ==
    IF from > to THEN <<>> ELSE PercentEncoded(s[from]) \o Encoded(s, from + 1, to)
PathEnd(s, ends) == IF ends = {} THEN Len(s) ELSE Least(ends) - 1
Rooted(url) == IF Len(url) > 0 /\ url[1] = "/" THEN url ELSE <<"/">> \o url
PathOf(s) == Encoded(s, 1, PathEnd(s, {j \in 1..Len(s) : s[j] \in {"?", "#"}}))
Pathname(url) == PathOf(Rooted(url))

\* RegExp.prototype.exec(url): the match (groups, or Undefined when there is
\* none) and the RegExp's lastIndex afterwards. lastIndex is read and written
\* only under the flags "g" and "y".
ExecResult(m, re, usesLastIndex) ==
    IF m.ok
    THEN [matched |-> TRUE, groups |-> m.caps,
          lastIndex |-> IF usesLastIndex THEN m.end - 1 ELSE re.lastIndex]
    ELSE [matched |-> FALSE, groups |-> Undefined,
          lastIndex |-> IF usesLastIndex THEN 0 ELSE re.lastIndex]
ExecFrom(re, url, from, usesLastIndex) ==
    ExecResult(IF from > Len(url) THEN Failure
               ELSE Search(re.nodes, re.names, url, from + 1,
                           HasFlag(re.flags, "i"), HasFlag(re.flags, "y")),
               re, usesLastIndex)
ExecWith(re, url, usesLastIndex) ==
    ExecFrom(re, url, IF usesLastIndex THEN re.lastIndex ELSE 0, usesLastIndex)
RegExpExec(re, url) ==
    ExecWith(re, url, HasFlag(re.flags, "g") \/ HasFlag(re.flags, "y"))

\* ------------------------------------------------------------ state

VARIABLES
    route,      \* the route a bootstrap built with createRoute and calls directly
    call,       \* the last direct call of that route: its input and its outcome
    routes,     \* the routes handed to createSwitcher, in argument order
    listening,  \* whether the switcher is built and requests are being served
    scopes,     \* the context store: the scope frames installed, oldest first
    req,        \* per request: where its call tree stands, and what it saw
    builder,    \* the chain of createSwRt: its routes, the switchers handed out
    respond,    \* the Respond under construction: its private fields
    wrapper     \* a call of a function wrapped by createWrapper: where it stands

vars == <<route, call, routes, listening, scopes, req, builder, respond, wrapper>>

\* ------------------------------------------------------ the context store

\* The frame the store holds for the execution context ctx: the runtime
\* hands every continuation of a call tree the context of its request.
FrameOf(frames, ctx) ==
    LET k == CHOOSE j \in 1..Len(frames) : frames[j].ctx = ctx
    IN  frames[k]

\* useURL(field) called in the call tree of context ctx.
useURL(frames, ctx, field) == FrameOf(frames, ctx).url[field]

\* The read operation of the cell created by createContext.
readCell(frames, ctx) == FrameOf(frames, ctx).user

\* The write operation of that cell: the frame of ctx holds v afterwards.
writeCell(frames, ctx, v) ==
    [j \in 1..Len(frames) |->
        IF frames[j].ctx = ctx THEN [frames[j] EXCEPT !.user = v] ELSE frames[j]]

\* The frame the dispatcher installs for a request.
NewFrame(ctx, method, path) ==
    [ctx |-> ctx, url |-> [method |-> method, pathname |-> path], user |-> Undefined]

\* The store once the call tree of ctx has completed: its frame is discarded.
Discard(frames, ctx) == SelectSeq(frames, LAMBDA f : f.ctx # ctx)

\* ------------------------------------------------------------ createRoute

\* A handler is a user function: it is known by its name, and returns a
\* value (which carries its name), undefined or null.
Handler(id, returns) == [id |-> id, returns |-> returns]
HandlerResult(h) ==
    CASE h.returns = "value" -> <<h.id>>
      [] h.returns = "undefined" -> Undefined
      [] h.returns = "null" -> Null

\* The handlers argument: one function, or an object keyed by method.
FunctionHandlers(h) == [kind |-> "function", fn |-> h]
ObjectHandlers(map) == [kind |-> "object", map |-> map]

\* createRoute(pattern, handlers, flags): the route closure (its handlers and
\* its RegExp), or threw = TRUE when createRegExp raises.
RouteOf(pattern, handlers, re) ==
    [threw |-> re.threw, pattern |-> pattern, handlers |-> handlers, re |-> re]
createRoute(pattern, handlers, flags) ==
    RouteOf(pattern, handlers, createRegExp(pattern, flags))

\* The handler h invoked with the matched groups.
Invoke(h, matched, methods) ==
    [ret |-> HandlerResult(h),
     invoked |-> <<[id |-> h.id, params |-> matched.groups, ret |-> HandlerResult(h)]>>,
     methods |-> methods, lastIndex |-> matched.lastIndex]

\* The second half of the closure as it would be if a method without an entry
\* fell back to some entry of the object.
ByMethodDefault(rt, matched, method) ==
    IF matched.matched /\ rt.handlers.kind = "object"
    THEN Invoke(IF method \in DOMAIN rt.handlers.map THEN rt.handlers.map[method]
                ELSE rt.handlers.map[CHOOSE m \in DOMAIN rt.handlers.map : TRUE],
                matched, <<method>>)
    ELSE [ret |-> Undefined, invoked |-> <<>>,
          methods |-> <<method>>, lastIndex |-> matched.lastIndex]

\* The second half of the closure: the method is read, and its handler is
\* invoked when the url matched and the object has an entry for it.
ByMethod(rt, matched, method) ==
    IF matched.matched /\ rt.handlers.kind = "object" /\ method \in DOMAIN rt.handlers.map
    THEN Invoke(rt.handlers.map[method], matched, <<method>>)
    ELSE [ret |-> Undefined, invoked |-> <<>>,
          methods |-> <<method>>, lastIndex |-> matched.lastIndex]

\* The closure as it would be if a handler function were called whether or
\* not the url matched.
RoutedAlways(rt, matched, frames, ctx) ==
    IF rt.handlers.kind = "function"
    THEN Invoke(rt.handlers.fn, matched, <<>>)
    ELSE ByMethod(rt, matched, useURL(frames, ctx, "method"))

\* The closure as it would be if it took the method of the request that
\* arrived last instead of asking the store in its own call tree.
RoutedLatest(rt, matched, frames, ctx) ==
    IF matched.matched /\ rt.handlers.kind = "function"
    THEN Invoke(rt.handlers.fn, matched, <<>>)
    ELSE ByMethod(rt, matched, frames[Len(frames)].url.method)

\* The closure, once re.exec(url) has returned `matched`.
Routed(rt, matched, frames, ctx) ==
    IF matched.matched /\ rt.handlers.kind = "function"
    THEN Invoke(rt.handlers.fn, matched, <<>>)
    ELSE ByMethod(rt, matched, useURL(frames, ctx, "method"))

\* The older router's createRoute(pattern, handler), and one call of the
\* closure it returns: the handler is called with the groups when the
\* pathname of the url matches, and null is returned when it does not.
createRouteOlder(pattern, handler) ==
    RouteOf(pattern, FunctionHandlers(handler), createRegExpOlder(pattern))
RoutedOlder(rt, matched) ==
    IF matched.matched THEN Invoke(rt.handlers.fn, matched, <<>>)
    ELSE [ret |-> Null, invoked |-> <<>>, methods |-> <<>>, lastIndex |-> matched.lastIndex]
RouteCallOlder(rt, url) == RoutedOlder(rt, RegExpExec(rt.re, Pathname(url)))

\* One call of the closure createRoute returns, in the call tree of context
\* ctx: the value returned, the handler invocations made (handler and
\* parameters), the method values read through useURL, and the RegExp's
\* lastIndex afterwards.
RouteCall(rt, url, frames, ctx) == Routed(rt, RegExpExec(rt.re, url), frames, ctx)

\* ---------------------------------------------------------- createSwitcher

\* routes.reduce((lastRouted, nextRoute) => lastRouted ?? nextRoute(url),
\* undefined) from route k on: acc carries lastRouted, the handler
\* invocations (with the position of the route that made them) and method
\* reads made so far, the routes called, and the routes with their RegExp
\* state.
NextRouted(acc, k, r) ==
    [ret |-> r.ret,
     invoked |-> acc.invoked \o [j \in 1..Len(r.invoked) |-> [route |-> k, call |-> r.invoked[j]]],
     methods |-> acc.methods \o r.methods,
     tried |-> Append(acc.tried, k),
     routes |-> [acc.routes EXCEPT ![k].re.lastIndex = r.lastIndex]]
\* The reduction as it would be with the operands of ?? exchanged
\* (nextRoute(url) ?? lastRouted): every route is called.
Exchanged(acc, nxt) == [nxt EXCEPT !.ret = IF Nullish(nxt.ret) THEN acc.ret ELSE nxt.ret]
RECURSIVE SwitcherFromExchanged(_, _, _, _, _)
SwitcherFromExchanged(acc, k, url, frames, ctx) ==
    IF k > Len(acc.routes) THEN acc
    ELSE SwitcherFromExchanged(
            Exchanged(acc, NextRouted(acc, k, RouteCall(acc.routes[k], url, frames, ctx))),
            k + 1, url, frames, ctx)

RECURSIVE SwitcherFrom(_, _, _, _, _)
SwitcherFrom(acc, k, url, frames, ctx) ==
    IF k > Len(acc.routes) THEN acc
    ELSE IF ~Nullish(acc.ret) THEN SwitcherFrom(acc, k + 1, url, frames, ctx)
    ELSE SwitcherFrom(NextRouted(acc, k, RouteCall(acc.routes[k], url, frames, ctx)),
                      k + 1, url, frames, ctx)

\* One call of the closure createSwitcher(...rts) returns.
createSwitcher(rts, url, frames, ctx) ==
    SwitcherFrom([ret |-> Undefined, invoked |-> <<>>, methods |-> <<>>, tried |-> <<>>,
                  routes |-> rts], 1, url, frames, ctx)

\* ------------------------------------------------------------ the inputs

\* The longest pattern the bootstrap composes, in elements.
MaxElems == 2
\* The most routes handed to createSwitcher.
MaxRoutes == 3

\* A pattern is composed of elements, each after a "/": a literal segment
\* or one of the four markers.
Lit(v) == [k |-> "lit", v |-> v]
Marker(k, n) == [k |-> k, v |-> n]
MarkerKinds == {"angle", "brace", "bracket", "paren"}
ElemKinds == {"lit"} \cup MarkerKinds

ElemText(e) ==
    CASE e.k = "lit" -> e.v
      [] e.k = "angle" -> <<":", "<">> \o e.v \o <<">">>
      [] e.k = "brace" -> <<":", "{">> \o e.v \o <<"}">>
      [] e.k = "bracket" -> <<":", "[">> \o e.v \o <<"]">>
      [] e.k = "paren" -> <<":", "(">> \o e.v \o <<")">>

RECURSIVE ElemsText(_)
ElemsText(elems) ==
    IF elems = <<>> THEN <<>>
    ELSE <<"/">> \o ElemText(Head(elems)) \o ElemsText(Tail(elems))

\* The pattern string of a shape: its elements, and "/" at the end or not.
PatternOf(shape) == ElemsText(shape.elems) \o (IF shape.slash THEN <<"/">> ELSE <<>>)

\* The literal and the parameter name used at each position of a composed
\* pattern: the names of one pattern are pairwise distinct.
LitAt == <<"a", "b", "c", "d">>
NameAt == <<"x", "y", "z", "w">>

GenShapes ==
    UNION {{[elems |-> [i \in 1..n |-> IF ks[i] = "lit" THEN Lit(<<LitAt[i]>>)
                                       ELSE Marker(ks[i], <<NameAt[i]>>)],
             slash |-> sl] : ks \in [1..n -> ElemKinds], sl \in BOOLEAN}
           : n \in 1..MaxElems}

\* The patterns of the documentation and of the design's examples.
\* A shape with the marker at position i written in the form k.
WithKind(shape, i, k) == [shape EXCEPT !.elems[i].k = k]

UserTags ==     \* /user/:<name>/:[tags]
    [elems |-> <<Lit(<<"u", "s", "e", "r">>), Marker("angle", <<"n", "a", "m", "e">>),
                 Marker("bracket", <<"t", "a", "g", "s">>)>>, slash |-> FALSE]
HelloUser ==    \* /hello/:<username>
    [elems |-> <<Lit(<<"h", "e", "l", "l", "o">>),
                 Marker("angle", <<"u", "s", "e", "r", "n", "a", "m", "e">>)>>, slash |-> FALSE]
BracketAngle == \* /a/:[x]/:<y>
    [elems |-> <<Lit(<<"a">>), Marker("bracket", <<"x">>), Marker("angle", <<"y">>)>>,
     slash |-> FALSE]
BracketParen == \* /a/:[x]/b/:(y)
    [elems |-> <<Lit(<<"a">>), Marker("bracket", <<"x">>), Lit(<<"b">>),
                 Marker("paren", <<"y">>)>>, slash |-> FALSE]
SameName ==     \* /:<x>/:[x]
    [elems |-> <<Marker("angle", <<"x">>), Marker("bracket", <<"x">>)>>, slash |-> FALSE]
HelloBrace ==   \* /hello/:{username}
    WithKind(HelloUser, 2, "brace")
HelloBracket == \* /hello/:[username]
    WithKind(HelloUser, 2, "bracket")
HelloParen ==   \* /hello/:(username)
    WithKind(HelloUser, 2, "paren")
UserExtra ==    \* /u/:<n>/:{e}/
    [elems |-> <<Lit(<<"u">>), Marker("angle", <<"n">>), Marker("brace", <<"e">>)>>,
     slash |-> TRUE]
ExtraShapes == {UserTags, HelloUser, BracketAngle, BracketParen, SameName,
                HelloBrace, HelloBracket, HelloParen, UserExtra}

\* Patterns given as text: markers whose bracket is not closed.
Unbalanced == {<<"/", "a", "/", ":", "<", "x">>,          \* /a/:<x
               <<"/", "a", "/", ":", "[", "x">>}          \* /a/:[x

\* Whether the parameter names of a shape are pairwise distinct.
DistinctNames(shape) ==
    \A i, j \in 1..Len(shape.elems) :
        (i # j /\ shape.elems[i].k # "lit" /\ shape.elems[j].k # "lit")
            => shape.elems[i].v # shape.elems[j].v

\* The values a parameter of each kind is designed to take (section 3 of the
\* design): one segment; one or more characters; any characters; and, for
\* ":(n)", also the parameter omitted together with its separator.
OneSegment == <<"v">>
TwoSegments == <<"v", "/", "w">>
Admissible(e) ==
    CASE e.k = "lit" -> {e.v}
      [] e.k = "angle" -> {OneSegment}
      [] e.k = "brace" -> {OneSegment, TwoSegments}
      [] e.k = "bracket" -> {<<>>, OneSegment, TwoSegments}
      [] e.k = "paren" -> {Undefined, <<>>, OneSegment, TwoSegments}

Assignments(shape) ==
    {vals \in [1..Len(shape.elems) -> UNION {Admissible(shape.elems[i]) : i \in 1..Len(shape.elems)}] :
        \A i \in 1..Len(shape.elems) : vals[i] \in Admissible(shape.elems[i])}

\* The literal path a pattern is designed to match for an assignment of
\* values: each element replaced by its value.
RECURSIVE SubstFrom(_, _, _)
SubstFrom(elems, vals, i) ==
    IF i > Len(elems) THEN <<>>
    ELSE (IF vals[i] = Undefined THEN <<>> ELSE <<"/">> \o vals[i])
            \o SubstFrom(elems, vals, i + 1)
Substitute(shape, vals, slash) ==
    SubstFrom(shape.elems, vals, 1) \o (IF shape.slash \/ slash THEN <<"/">> ELSE <<>>)

\* The parameters a match is expected to extract for an assignment.
Expected(shape, vals) ==
    [n \in {shape.elems[i].v : i \in {j \in 1..Len(shape.elems) : shape.elems[j].k # "lit"}} |->
        LET i == CHOOSE j \in 1..Len(shape.elems) :
                    shape.elems[j].k # "lit" /\ shape.elems[j].v = n
        IN  vals[i]]

\* Paths given as text.
HelloFreesia ==        <<"/", "h", "e", "l", "l", "o", "/", "f", "r", "e", "e", "s", "i", "a">>
HelloFreesiaSlash ==   HelloFreesia \o <<"/">>                         \* /hello/freesia/
HelloFreesia13 ==      HelloFreesia \o <<"/", "1", "3">>               \* /hello/freesia/13
HelloSlash ==          <<"/", "h", "e", "l", "l", "o", "/">>           \* /hello/
Hello ==               <<"/", "h", "e", "l", "l", "o">>                \* /hello
HelloAB ==             HelloSlash \o <<"a", "/", "b">>                 \* /hello/a/b
HelloFreesiaUpper ==   <<"/", "H">> \o Slice(HelloFreesia, 2)          \* /Hello/freesia
UserBob ==             <<"/", "u", "s", "e", "r", "/", "b", "o", "b">> \* /user/bob
UserBobSlash ==        UserBob \o <<"/">>                              \* /user/bob/
UserBobXY ==           UserBob \o <<"/", "x", "/", "y">>               \* /user/bob/x/y
FixedPaths ==
    {HelloFreesia, HelloFreesiaSlash, HelloFreesia13, HelloSlash, HelloFreesiaUpper,
     Hello, HelloAB,
     <<"/", "a", "/", "v", "?", "t", "=", "1">>,                       \* /a/v?t=1
     <<"/", "a", "?", "t", "=", "1">>,                                 \* /a?t=1
     <<"/", "u", "/", "m", "/", "o", "/", "p", "/">>,                  \* /u/m/o/p/
     <<"/", "u", "/", "m", "/", "o", "/", "p", "/", "?", "t", "=", "1">>,  \* /u/m/o/p/?t=1
     UserBob, UserBobSlash, UserBobXY,
     <<"/", "a", "/", ":", "<", "x">>,                                 \* /a/:<x
     <<"/", "a", "/", "v">>,                                           \* /a/v
     <<"/", "A", "/", "v">>,                                           \* /A/v
     <<"/", "a">>,                                                     \* /a
     <<"/">>}                                                          \* /

Methods == {"GET", "PUT"}

\* The handlers of the routes: a function, and an object with an entry for
\* GET only.
hFn == Handler("hFn", "value")
hGet == Handler("hGet", "value")
GetOnly == ObjectHandlers([m \in {"GET"} |-> hGet])

\* The flags strings a caller passes: the default, none, global, sticky,
\* both, and a character that is no flag.
Flags == {<<"i">>, <<>>, <<"g">>, <<"y">>, <<"i", "g">>, <<"q">>}

\* The shape recorded for a pattern given as text.
NoShape == [elems |-> <<>>, slash |-> FALSE]

\* What a bootstrap passes to createRoute when it explores the patterns: a
\* composed pattern or a pattern given as text (composed tells which), with
\* one handler function and the default flags.
RouteInputs ==
    {[pattern |-> PatternOf(sh), composed |-> TRUE, shape |-> sh,
      handlers |-> FunctionHandlers(hFn), flags |-> DefaultFlags] :
            sh \in GenShapes \cup ExtraShapes}
    \cup {[pattern |-> PatternOf(sh), composed |-> TRUE, shape |-> sh,
           handlers |-> GetOnly, flags |-> DefaultFlags] : sh \in ExtraShapes}
    \cup {[pattern |-> p, composed |-> FALSE, shape |-> NoShape,
           handlers |-> FunctionHandlers(hFn), flags |-> DefaultFlags] : p \in Unbalanced}

\* What it passes when it explores the flags: the pattern /a/:<x> with every
\* flags string and both kinds of handlers.
SlashA == [elems |-> <<Lit(<<"a">>), Marker("angle", <<"x">>)>>, slash |-> FALSE]
FlagInputs ==
    {[pattern |-> PatternOf(SlashA), composed |-> TRUE, shape |-> SlashA,
      handlers |-> h, flags |-> f] : h \in {FunctionHandlers(hFn), GetOnly}, f \in Flags}

\* The patterns handed to the older router's createRoute, and the urls its
\* routes are called with besides the paths above.
OlderPatterns ==
    {<<"/", "a", "/", "<", "x", ">">>,                                     \* /a/<x>
     <<"/", "a", "/", "<", "[", "x", "]", ">", "/">>,                      \* /a/<[x]>/
     <<"/", "u", "/", "<", "n", ">", "/", "<", "[", "e", "]", ">", "/">>}  \* /u/<n>/<[e]>/
OlderUrls ==
    {<<"/", "a", "/", "v", "?", "t", "=", "1">>,                           \* /a/v?t=1
     <<"/", "a", "/", "v", "/", "w", "/">>,                                \* /a/v/w/
     <<"a", "/", "v">>,                                                    \* a/v
     <<"/", "u", "/", "m", "/", "o", "/", "p", "/", "?", "t", "=", "1">>}  \* /u/m/o/p/?t=1

\* The most calls made on one route.
MaxCalls == 2

\* --------------------------------------- a route, built and called directly

NoRoute == [state |-> "none"]
NoCall == [n |-> 0]
\* The parts of the program a bootstrap does not use.
NoBuilder == [state |-> "none"]
NoRespond == [state |-> "none"]
NoWrapper == [state |-> "none"]

\* The bootstrap builds a route; createRoute raises or returns the closure.
Created(in, rt) ==
    [state |-> IF rt.threw THEN "threw" ELSE "ok",
     composed |-> in.composed, shape |-> in.shape, rt |-> rt]
CreateRoute(in) ==
    /\ route.state = "none"
    /\ route' = Created(in, createRoute(in.pattern, in.handlers, in.flags))
    /\ UNCHANGED <<builder, respond, wrapper, call, routes, listening, scopes, req>>

\* A request with the given method is handled by calling the route with url,
\* inside the scope the dispatcher installed for it. When url was built from
\* the route's shape (built), vals is the assignment it was built from.
Called(url, method, built, vals, r) ==
    /\ call' = [n |-> call.n + 1, url |-> url, method |-> method,
                built |-> built, vals |-> vals,
                startIndex |-> route.rt.re.lastIndex,
                ret |-> r.ret, invoked |-> r.invoked, methods |-> r.methods]
    /\ route' = [route EXCEPT !.rt.re.lastIndex = r.lastIndex]
    /\ UNCHANGED <<builder, respond, wrapper, routes, listening, scopes, req>>
CallRouteWith(url, method, built, vals) ==
    Called(url, method, built, vals,
           RouteCall(route.rt, url, <<NewFrame(0, method, url)>>, 0))

\* The route is called with a path given as text.
CallRouteFixed(limit) ==
    /\ route.state = "ok"
    /\ call.n < limit
    /\ \E url \in FixedPaths, method \in Methods : CallRouteWith(url, method, FALSE, <<>>)

\* The route is called with a path built from its pattern: its elements
\* replaced by admissible values, with or without a "/" at the end.
CallRouteSubst(limit) ==
    /\ route.state = "ok"
    /\ call.n < limit
    /\ route.composed
    /\ \E vals \in Assignments(route.shape), slash \in BOOLEAN, method \in Methods :
            CallRouteWith(Substitute(route.shape, vals, slash), method, TRUE, vals)

\* The bootstrap builds a route with the older router.
CreateRouteOlder(p) ==
    /\ route.state = "none"
    /\ route' = [state |-> "older", composed |-> FALSE, shape |-> NoShape,
                 rt |-> createRouteOlder(p, hFn)]
    /\ UNCHANGED <<builder, respond, wrapper, call, routes, listening, scopes, req>>

\* A route of the older router is called with a url.
CallRouteOlder(limit) ==
    /\ route.state = "older"
    /\ call.n < limit
    /\ \E url \in FixedPaths \cup OlderUrls :
            Called(url, "GET", FALSE, <<>>, RouteCallOlder(route.rt, url))

InitRoute ==
    /\ route = NoRoute
    /\ builder = NoBuilder
    /\ respond = NoRespond
    /\ wrapper = NoWrapper
    /\ call = NoCall
    /\ routes = <<>>
    /\ listening = FALSE
    /\ scopes = <<>>
    /\ req = <<>>

\* The patterns: a route is built and applied to one path.
NextRoute ==
    \/ \E in \in RouteInputs : CreateRoute(in)
    \/ CallRouteFixed(1)
    \/ CallRouteSubst(1)
    \/ \E p \in OlderPatterns : CreateRouteOlder(p)
    \/ CallRouteOlder(1)

SpecRoute == InitRoute /\ [][NextRoute]_vars

\* The flags: a route is built and applied to a sequence of paths.
NextCalls ==
    \/ \E in \in FlagInputs : CreateRoute(in)
    \/ CallRouteFixed(MaxCalls)
    \/ CallRouteSubst(MaxCalls)

SpecCalls == InitRoute /\ [][NextCalls]_vars

\* ----------------------------------------- a server: switcher and requests

\* The routes a bootstrap hands to createSwitcher: two patterns, /a/:<x> and
\* /b, with a handler function that returns a value, undefined or null, or
\* with an object that has a handler for GET only.
SlashB == [elems |-> <<Lit(<<"b">>)>>, slash |-> FALSE]
RouteDefs ==
    {[pattern |-> PatternOf(SlashA), handlers |-> FunctionHandlers(Handler("value", "value"))],
     [pattern |-> PatternOf(SlashA), handlers |-> FunctionHandlers(Handler("undef", "undefined"))],
     [pattern |-> PatternOf(SlashA), handlers |-> FunctionHandlers(Handler("null", "null"))],
     [pattern |-> PatternOf(SlashA), handlers |-> GetOnly],
     [pattern |-> PatternOf(SlashB), handlers |-> FunctionHandlers(Handler("b", "value"))]}

\* The requests served, and the paths they ask for.
Requests == {1, 2}
Paths == {<<"/", "a", "/", "v">>, <<"/", "b">>}

\* What the first step of a request's call tree writes to the context cell.
Written(r) == <<"user", r>>

\* A request that has not arrived: nothing asked, nothing seen.
Idle == [pc |-> "idle", method |-> "", path |-> <<>>, ret |-> Undefined, invoked |-> <<>>,
         methods |-> <<>>, tried |-> <<>>, beside |-> {}, seen |-> Undefined]

\* The bootstrap builds one more route for the switcher.
AddRoute(d) ==
    /\ ~listening
    /\ Len(routes) < MaxRoutes
    /\ routes' = Append(routes, createRoute(d.pattern, d.handlers, DefaultFlags))
    /\ UNCHANGED <<builder, respond, wrapper, route, call, listening, scopes, req>>

\* The bootstrap builds the switcher over the routes and starts serving.
Listen ==
    /\ ~listening
    /\ routes # <<>>
    /\ listening' = TRUE
    /\ UNCHANGED <<builder, respond, wrapper, route, call, routes, scopes, req>>

\* Request r arrives: the dispatcher installs its scope frame and starts its
\* call tree, which writes the context cell and then suspends.
Dispatch(r, method, path) ==
    /\ listening
    /\ req[r].pc = "idle"
    /\ scopes' = writeCell(Append(scopes, NewFrame(r, method, path)), r, Written(r))
    /\ req' = [req EXCEPT ![r] = [Idle EXCEPT !.pc = "entered", !.method = method,
                                               !.path = path]]
    /\ UNCHANGED <<builder, respond, wrapper, route, call, routes, listening>>

\* The call tree of request r resumes and calls the switcher with its path;
\* `beside` are the requests whose scope is installed at that time. It
\* suspends again before it builds the response.
Switched(r, sw) ==
    /\ req' = [req EXCEPT ![r] = [@ EXCEPT !.pc = "routed", !.ret = sw.ret,
                                           !.invoked = sw.invoked, !.methods = sw.methods,
                                           !.tried = sw.tried,
                                           !.beside = {scopes[j].ctx : j \in 1..Len(scopes)}
                                                        \ {r}]]
    /\ routes' = sw.routes
    /\ UNCHANGED <<builder, respond, wrapper, route, call, listening, scopes>>
Switch(r) ==
    /\ req[r].pc = "entered"
    /\ Switched(r, createSwitcher(routes, req[r].path, scopes, r))

\* The call tree of request r resumes, reads the context cell and completes;
\* its scope frame is discarded.
Finish(r) ==
    /\ req[r].pc = "routed"
    /\ req' = [req EXCEPT ![r] = [@ EXCEPT !.pc = "done", !.seen = readCell(scopes, r)]]
    /\ scopes' = Discard(scopes, r)
    /\ UNCHANGED <<builder, respond, wrapper, route, call, routes, listening>>

Init ==
    /\ route = NoRoute
    /\ builder = NoBuilder
    /\ respond = NoRespond
    /\ wrapper = NoWrapper
    /\ call = NoCall
    /\ routes = <<>>
    /\ listening = FALSE
    /\ scopes = <<>>
    /\ req = [r \in Requests |-> Idle]

Next ==
    \/ \E d \in RouteDefs : AddRoute(d)
    \/ Listen
    \/ \E r \in Requests, method \in Methods, path \in Paths : Dispatch(r, method, path)
    \/ \E r \in Requests : Switch(r)
    \/ \E r \in Requests : Finish(r)

Spec == Init /\ [][Next]_vars

\* ------------------------------------- the older router's chain: createSwRt

\* createExtendRoute's closure: the handler also receives the extra argument.
InvokeExtend(h, matched, extra) ==
    [ret |-> HandlerResult(h),
     invoked |-> <<[id |-> h.id, params |-> matched.groups, ret |-> HandlerResult(h),
                    extra |-> extra]>>,
     methods |-> <<>>, lastIndex |-> matched.lastIndex]
RoutedExtend(rt, matched, extra) ==
    IF matched.matched THEN InvokeExtend(rt.handlers.fn, matched, extra)
    ELSE [ret |-> Null, invoked |-> <<>>, methods |-> <<>>, lastIndex |-> matched.lastIndex]
RouteCallExtend(rt, url, extra) == RoutedExtend(rt, RegExpExec(rt.re, Pathname(url)), extra)

\* One route of a chain called: of createSwRt, or of createExtendSwRt.
ChainRouteCall(rt, url, extend, extra) ==
    IF extend THEN RouteCallExtend(rt, url, extra) ELSE RouteCallOlder(rt, url)

\* The older createSwitcher and createExtendSwitcher:
\* routes.reduce((lastRouted, nextRoute) => lastRouted ?? nextRoute(url), null)
\* from route k on; acc carries lastRouted, the handler invocations (with the
\* position of the route that made them) and the routes called.
NextRoutedOlder(acc, k, r) ==
    [ret |-> r.ret,
     invoked |-> acc.invoked \o [j \in 1..Len(r.invoked) |-> [route |-> k, call |-> r.invoked[j]]],
     tried |-> Append(acc.tried, k)]
RECURSIVE SwitcherOlderFrom(_, _, _, _, _, _)
SwitcherOlderFrom(acc, k, rts, url, extend, extra) ==
    IF k > Len(rts) THEN acc
    ELSE IF ~Nullish(acc.ret) THEN SwitcherOlderFrom(acc, k + 1, rts, url, extend, extra)
    ELSE SwitcherOlderFrom(NextRoutedOlder(acc, k, ChainRouteCall(rts[k], url, extend, extra)),
                           k + 1, rts, url, extend, extra)
createSwitcherOlder(rts, url, extend, extra) ==
    SwitcherOlderFrom([ret |-> Null, invoked |-> <<>>, tried |-> <<>>], 1, rts, url,
                      extend, extra)

\* The most route() calls made on one createSwRt().
MaxRegistered == 3

\* What the bootstrap passes to route(): /a/<x> with a handler that returns a
\* value or null, and /a/<[x]> with a handler that returns a value.
SlashBText == <<"/", "b">>
ChainDefs ==
    {[pattern |-> <<"/", "a", "/", "<", "x", ">">>, handler |-> Handler("one", "value")],
     [pattern |-> <<"/", "a", "/", "<", "x", ">">>, handler |-> Handler("none", "null")],
     [pattern |-> <<"/", "a", "/", "<", "[", "x", "]", ">">>, handler |-> Handler("rest", "value")]}
\* The urls the switchers are called with, and the extra argument.
ChainUrls ==
    {<<"/", "a", "/", "v">>, <<"/", "a", "/", "v", "/", "w">>, SlashBText,
     <<"/", "a", "/", "v", "?", "t", "=", "1">>}
Extra == <<"extra">>

\* `routes = [...routes, createRoute(pattern, handler)]` as it would be with
\* the new route put first.
RegisteredFirst(rts, rt) == <<rt>> \o rts
\* `routes = [...routes, createRoute(pattern, handler)]`.
Registered(rts, rt) == Append(rts, rt)

\* A chain object { route, switcher }: the switcher is createSwitcher(...routes)
\* of the routes at the time, a copy. The model also keeps the chain object
\* whose route() returned it (0 for the one createSwRt returned) and the
\* arguments of the route() calls that led to it.
ChainObject(parent, given, rts) == [parent |-> parent, given |-> given, switcher |-> rts]
NoDispatch == [n |-> 0]

\* createSwRt() or createExtendSwRt(): `routes` is empty, and the first chain
\* object is returned.
CreateSwRt(extend) ==
    /\ builder.state = "none"
    /\ builder' = [state |-> "made", extend |-> extend, routes |-> <<>>,
                   chains |-> <<ChainObject(0, <<>>, <<>>)>>, last |-> NoDispatch]
    /\ UNCHANGED <<route, call, routes, listening, scopes, req, respond, wrapper>>

\* route(pattern, handler) of the chain object c: the closure's `routes` gets
\* one more route, and a new chain object is returned.
RouteAdded(c, d, rts) ==
    /\ builder' = [builder EXCEPT !.routes = rts,
                                  !.chains = Append(@, ChainObject(c, Append(builder.chains[c].given, d), rts))]
    /\ UNCHANGED <<route, call, routes, listening, scopes, req, respond, wrapper>>
ChainRoute(c, d) ==
    /\ builder.state = "made"
    /\ builder.last.n = 0
    /\ Len(builder.chains) <= MaxRegistered
    /\ c \in 1..Len(builder.chains)
    /\ RouteAdded(c, d, Registered(builder.routes, createRouteOlder(d.pattern, d.handler)))

\* switcher(url) of the chain object c (with the extra argument, for a chain
\* of createExtendSwRt), once the bootstrap has registered its routes.
ChainSwitched(c, url, sw) ==
    /\ builder' = [builder EXCEPT !.last = [n |-> 1, chain |-> c, url |-> url, ret |-> sw.ret,
                                            invoked |-> sw.invoked, tried |-> sw.tried]]
    /\ UNCHANGED <<route, call, routes, listening, scopes, req, respond, wrapper>>
ChainSwitch(c, url) ==
    /\ builder.state = "made"
    /\ builder.last.n = 0
    /\ c \in 1..Len(builder.chains)
    /\ ChainSwitched(c, url, createSwitcherOlder(builder.chains[c].switcher, url,
                                                 builder.extend, Extra))

InitBuilder ==
    /\ route = NoRoute
    /\ call = NoCall
    /\ routes = <<>>
    /\ listening = FALSE
    /\ scopes = <<>>
    /\ req = <<>>
    /\ builder = NoBuilder
    /\ respond = NoRespond
    /\ wrapper = NoWrapper

NextBuilder ==
    \/ \E extend \in BOOLEAN : CreateSwRt(extend)
    \/ \E c \in 1..(MaxRegistered + 1), d \in ChainDefs : ChainRoute(c, d)
    \/ \E c \in 1..(MaxRegistered + 1), url \in ChainUrls : ChainSwitch(c, url)

SpecBuilder == InitBuilder /\ [][NextBuilder]_vars

\* ----------------------------------------------------------- createRouteX

\* createRouteX(pattern, handlers, flags): as createRoute, for handlers that
\* also receive the extra argument of the call.
createRouteX(pattern, handlers, flags) ==
    RouteOf(pattern, handlers, createRegExp(pattern, flags))

\* The handler h invoked with the matched groups and the extra argument, after
\* the method was read.
InvokeX(h, matched, extra, methods) ==
    [InvokeExtend(h, matched, extra) EXCEPT !.methods = methods]

\* The closure of createRouteX once re.exec(url) has returned `matched`: the
\* method is read first, then a handler function is called when the url
\* matched, or the entry of the method when the url matched and the object
\* has one.
RoutedMethodX(rt, matched, extra, method) ==
    IF matched.matched /\ rt.handlers.kind = "function"
    THEN InvokeX(rt.handlers.fn, matched, extra, <<method>>)
    ELSE IF matched.matched /\ rt.handlers.kind = "object" /\ method \in DOMAIN rt.handlers.map
    THEN InvokeX(rt.handlers.map[method], matched, extra, <<method>>)
    ELSE [ret |-> Undefined, invoked |-> <<>>,
          methods |-> <<method>>, lastIndex |-> matched.lastIndex]
RoutedX(rt, matched, extra, frames, ctx) ==
    RoutedMethodX(rt, matched, extra, useURL(frames, ctx, "method"))
RouteCallX(rt, url, extra, frames, ctx) ==
    RoutedX(rt, RegExpExec(rt.re, url), extra, frames, ctx)

\* The routes built from one handler function or from a method map.
HandlerInputs ==
    {[pattern |-> PatternOf(sh), composed |-> TRUE, shape |-> sh,
      handlers |-> h, flags |-> DefaultFlags] :
            sh \in ExtraShapes, h \in {FunctionHandlers(hFn), GetOnly}}

\* The bootstrap builds a route with createRouteX.
CreateRouteX(in) ==
    /\ route.state = "none"
    /\ \E rt \in {createRouteX(in.pattern, in.handlers, in.flags)} :
            route' = [state |-> IF rt.threw THEN "threw" ELSE "extra",
                      composed |-> in.composed, shape |-> in.shape, rt |-> rt]
    /\ UNCHANGED <<builder, respond, wrapper, call, routes, listening, scopes, req>>

\* A request is handled by calling the route of createRouteX with a path and
\* the extra argument, inside the scope the dispatcher installed for it.
CallRouteX(limit) ==
    /\ route.state = "extra"
    /\ call.n < limit
    /\ \E url \in FixedPaths, method \in Methods :
            Called(url, method, FALSE, <<>>,
                   RouteCallX(route.rt, url, Extra, <<NewFrame(0, method, url)>>, 0))

\* The handlers: a route of createRoute or of createRouteX is built and
\* applied to one path.
NextHandlers ==
    \/ \E in \in HandlerInputs : CreateRoute(in)
    \/ CallRouteFixed(1)
    \/ \E in \in HandlerInputs : CreateRouteX(in)
    \/ CallRouteX(1)

SpecHandlers == InitRoute /\ [][NextHandlers]_vars

\* ------------------------------------------------------------ Respond

\* JavaScript values handed to Respond: a number, a string, a Buffer, a
\* Stream or a plain object, each with its type; Undefined for an argument
\* that is not given.
Number(n) == <<"number", n>>
String(v) == <<"string", v>>
Buffer(v) == <<"Buffer", v>>
Stream(v) == <<"Stream", v>>
Object(o) == <<"object", o>>
\* typeof v === "string" || v instanceof Buffer || v instanceof Stream
IsBody(v) == v[1] \in {"string", "Buffer", "Stream"}
\* typeof v === "object"
TypeofObject(v) == v[1] \in {"object", "Buffer", "Stream"}
\* Whether a value counts as true in a condition: undefined and the empty
\* string do not.
Truthy(v) == v[1] # "undefined" /\ v # String("")

\* { ...a, ...b }: the keys of both, with the values of b where it has the key.
Spread(a, b) ==
    [k \in DOMAIN a \cup DOMAIN b |-> IF k \in DOMAIN b THEN b[k] ELSE a[k]]
NoHeaders == [k \in {} |-> ""]
\* headers.reduce((pre, cur) => ({ ...pre, ...cur }), {})
RECURSIVE Reduced(_, _, _)
Reduced(pre, layers, k) ==
    IF k > Len(layers) THEN pre ELSE Reduced(Spread(pre, layers[k]), layers, k + 1)

\* new Respond(): the private fields.
NewRespond ==
    [statusCode |-> Undefined, statusMessage |-> Undefined, body |-> Undefined,
     headers |-> NoHeaders]
\* The setters, and setHeaders as it would be with the earlier value kept.
setStatusCode(r, code) == [r EXCEPT !.statusCode = code]
setStatusMessage(r, message) == [r EXCEPT !.statusMessage = message]
\* setBody as it would be if a new body put the status code back to its
\* default.
setBodyDefaulting(r, body) == [r EXCEPT !.body = body, !.statusCode = Undefined]
setBody(r, body) == [r EXCEPT !.body = body]
setHeadersKeep(r, layers) ==
    [r EXCEPT !.headers = Spread(Reduced(NoHeaders, layers, 1), r.headers)]
setHeaders(r, layers) ==
    [r EXCEPT !.headers = Spread(r.headers, Reduced(NoHeaders, layers, 1))]
\* The getters: this._statusCode ?? (this._body ? 200 : 404), and
\* this._statusMessage ?? statusMessage[this.statusCode].
statusCode(r) ==
    IF r.statusCode[1] # "undefined" THEN r.statusCode[2]
    ELSE IF Truthy(r.body) THEN 200 ELSE 404
statusMessage(r) ==
    IF r.statusMessage[1] # "undefined" THEN r.statusMessage[2]
    ELSE <<"statusMessage", statusCode(r)>>

\* Respond.create(arg1, arg2, headers).
CreateCoded(r, arg2) ==
    IF IsBody(arg2) THEN setBody(r, arg2)
    ELSE IF TypeofObject(arg2) THEN setHeaders(r, <<arg2[2]>>)
    ELSE r
CreateBodied(r, arg2) ==
    IF TypeofObject(arg2) THEN setHeaders(r, <<arg2[2]>>) ELSE r
CreateFirst(arg1, arg2) ==
    IF arg1[1] = "number" THEN CreateCoded(setStatusCode(NewRespond, arg1), arg2)
    ELSE NewRespond
CreateSecond(r, arg1, arg2) ==
    IF IsBody(arg1) THEN CreateBodied(setBody(r, arg1), arg2) ELSE r
CreateThird(r, headers) ==
    IF Truthy(headers) THEN setHeaders(r, <<headers[2]>>) ELSE r
create(arg1, arg2, headers) ==
    CreateThird(CreateSecond(CreateFirst(arg1, arg2), arg1, arg2), headers)

\* The values a handler builds a Respond from: status codes, bodies (the
\* empty string among them) and header layers.
Codes == {Number(200), Number(500)}
Bodies == {String(""), String("hello"), Buffer(""), Stream("file")}
Layers == {[A |-> "1", B |-> "2"], [A |-> "3"]}
Messages == {String("Fine")}
\* The argument lists of Respond.create: those of its overloads, and a code
\* or a body followed by two header layers.
CreateArgs ==
    {<<Undefined, Undefined, Undefined>>}
    \cup {<<c, Undefined, Undefined>> : c \in Codes}
    \cup {<<b, Undefined, Undefined>> : b \in Bodies}
    \cup {<<c, b, Undefined>> : c \in Codes, b \in Bodies}
    \cup {<<c, Object(h), Undefined>> : c \in Codes, h \in Layers}
    \cup {<<b, Object(h), Undefined>> : b \in Bodies, h \in Layers}
    \cup {<<c, b, Object(h)>> : c \in Codes, b \in Bodies, h \in Layers}
    \cup {<<c, Object(h), Object(g)>> : c \in Codes, h \in Layers, g \in Layers}
    \cup {<<b, Object(h), Object(g)>> : b \in Bodies, h \in Layers, g \in Layers}
\* The argument lists of setHeaders: one layer or two.
LayerLists == {<<h>> : h \in Layers} \cup {<<h, g>> : h \in Layers, g \in Layers}

\* The most setter calls made on one Respond.
MaxSetCalls == 2

\* The header layers among the arguments of create, in their order.
LayersOf(args) ==
    [j \in 1..Len(SelectSeq(args, LAMBDA v : v[1] = "object")) |->
        SelectSeq(args, LAMBDA v : v[1] = "object")[j][2]]

\* A handler calls Respond.create. Besides the Respond, the model keeps the
\* arguments, the header layers supplied so far and the setter calls made.
RespondCreate(args) ==
    /\ respond.state = "none"
    /\ respond' = [state |-> "made", r |-> create(args[1], args[2], args[3]),
                   args |-> args, layers |-> LayersOf(args), calls |-> <<>>]
    /\ UNCHANGED <<route, call, routes, listening, scopes, req, builder, wrapper>>

\* The handler calls a setter of the Respond.
RespondSet(r, op, v, layers) ==
    /\ respond.state = "made"
    /\ Len(respond.calls) < MaxSetCalls
    /\ respond' = [respond EXCEPT !.r = r, !.calls = Append(@, [op |-> op, v |-> v]),
                                  !.layers = @ \o layers]
    /\ UNCHANGED <<route, call, routes, listening, scopes, req, builder, wrapper>>
SetStatusCode(code) == RespondSet(setStatusCode(respond.r, code), "setStatusCode", code, <<>>)
SetStatusMessage(m) == RespondSet(setStatusMessage(respond.r, m), "setStatusMessage", m, <<>>)
SetBody(body) == RespondSet(setBody(respond.r, body), "setBody", body, <<>>)
SetHeaders(layers) == RespondSet(setHeaders(respond.r, layers), "setHeaders", Undefined, layers)

InitRespond ==
    /\ route = NoRoute
    /\ call = NoCall
    /\ routes = <<>>
    /\ listening = FALSE
    /\ scopes = <<>>
    /\ req = <<>>
    /\ builder = NoBuilder
    /\ respond = NoRespond
    /\ wrapper = NoWrapper

NextRespond ==
    \/ \E args \in CreateArgs : RespondCreate(args)
    \/ \E code \in Codes : SetStatusCode(code)
    \/ \E m \in Messages : SetStatusMessage(m)
    \/ \E body \in Bodies : SetBody(body)
    \/ \E layers \in LayerLists : SetHeaders(layers)

SpecRespond == InitRespond /\ [][NextRespond]_vars

\* ------------------------------------------------------------ createWrapper

\* The values in play: a Promise of a value, and what the functions return:
\* fn its parameters marked "fn", the after-hook its argument marked "after",
\* the function given with null "fallback"; an async function a Promise of it.
Promise(v) == <<"promise", v>>
Returned(kind, v) == IF kind = "async" THEN Promise(v) ELSE v
\* What a Promise resolved with v settles to: a Promise is adopted.
Adopted(v) == IF v[1] = "promise" THEN v[2] ELSE v

\* The tuples a hook returns: [null, fallback], [params] and [params, after];
\* after is "none" when the tuple has one element, else the kind of function.
HookTuple(p, after) == [p |-> p, after |-> after]
\* (after ?? echo)(r)
AfterOrEcho(after, r) ==
    IF after = "none" THEN r ELSE Returned(after, <<"after", r>>)

\* The end of the wrapped function as it would be with the after-hook left out.
ContinuedEcho(t, fn) ==
    IF t.p = Null
    THEN [events |-> <<<<"fallback">>>>, value |-> Returned(t.after, <<"fallback">>)]
    ELSE [events |-> <<<<"fn", t.p>>>>, value |-> Returned(fn, <<"fn", t.p>>)]
\* if (p === null) return after(); return (after ?? echo)(fn(...p)): the
\* functions called, in order, and the value returned.
Continued(t, fn) ==
    IF t.p = Null
    THEN [events |-> <<<<"fallback">>>>, value |-> Returned(t.after, <<"fallback">>)]
    ELSE [events |-> <<<<"fn", t.p>>>> \o (IF t.after = "none" THEN <<>> ELSE <<<<"after">>>>),
          value |-> AfterOrEcho(t.after, Returned(fn, <<"fn", t.p>>))]

\* The hooks and functions a bootstrap wraps: the hook is synchronous or
\* asynchronous and returns one of the tuples; fn likewise.
Kinds == {"sync", "async"}
Params == {<<"p">>, <<"p", "q">>}
HookTuples ==
    {HookTuple(Null, k) : k \in Kinds}
    \cup {HookTuple(p, after) : p \in Params, after \in {"none"} \cup Kinds}
WrapperArgs == {<<"a">>, <<"b">>}

\* The most calls of one wrapped function.
MaxWrapCalls == 2

\* createWrapper(hook)(fn).
CreateWrapper(hook, t, fn) ==
    /\ wrapper.state = "none"
    /\ wrapper' = [state |-> "idle", hook |-> hook, tuple |-> t, fn |-> fn, n |-> 0,
                   args |-> <<>>, events |-> <<>>, result |-> Undefined]
    /\ UNCHANGED <<route, call, routes, listening, scopes, req, builder, respond>>

\* The wrapped function is called. hook(...args) runs; when it returns a
\* tuple the call goes on at once and returns, when it returns a Promise the
\* call returns the Promise of t.then(...), which is pending.
WrapperCalled(args, c) ==
    /\ wrapper' = [wrapper EXCEPT
            !.n = @ + 1, !.args = args,
            !.state = IF wrapper.hook = "async" THEN "pending" ELSE "idle",
            !.events = IF wrapper.hook = "async" THEN <<<<"hook", args>>>>
                       ELSE <<<<"hook", args>>, <<"hooked">>>> \o c.events,
            !.result = IF wrapper.hook = "async" THEN Promise(<<"pending">>) ELSE c.value]
    /\ UNCHANGED <<route, call, routes, listening, scopes, req, builder, respond>>
WrapperCall(args) ==
    /\ wrapper.state = "idle"
    /\ wrapper.n < MaxWrapCalls
    /\ WrapperCalled(args, Continued(wrapper.tuple, wrapper.fn))

\* The Promise of an asynchronous hook is fulfilled with its tuple: the
\* callback given to then runs, and the Promise returned settles to its value.
WrapperThen(c) ==
    /\ wrapper' = [wrapper EXCEPT !.state = "idle",
                                  !.events = @ \o <<<<"hooked">>>> \o c.events,
                                  !.result = Promise(Adopted(c.value))]
    /\ UNCHANGED <<route, call, routes, listening, scopes, req, builder, respond>>
WrapperHooked ==
    /\ wrapper.state = "pending"
    /\ WrapperThen(Continued(wrapper.tuple, wrapper.fn))

InitWrapper ==
    /\ route = NoRoute
    /\ call = NoCall
    /\ routes = <<>>
    /\ listening = FALSE
    /\ scopes = <<>>
    /\ req = <<>>
    /\ builder = NoBuilder
    /\ respond = NoRespond
    /\ wrapper = NoWrapper

NextWrapper ==
    \/ \E hook \in Kinds, t \in HookTuples, fn \in Kinds : CreateWrapper(hook, t, fn)
    \/ \E args \in WrapperArgs : WrapperCall(args)
    \/ WrapperHooked

SpecWrapper == InitWrapper /\ [][NextWrapper]_vars

\* ===================================================== the properties

\* Whether the compiled pattern of route rt matches url, and whether rt has a
\* handler for a request with the given method.
WouldMatch(rt, url) == RegExpExec([rt.re EXCEPT !.lastIndex = 0], url).matched
HandlerFor(rt, method) ==
    IF rt.handlers.kind = "function" THEN {rt.handlers.fn}
    ELSE {rt.handlers.map[m] : m \in DOMAIN rt.handlers.map \cap {method}}

\* The positions of the routes whose handler a request is to reach: those
\* that match its path and have a handler for its method.
Reaching(q) ==
    {k \in 1..Len(routes) : WouldMatch(routes[k], q.path) /\ HandlerFor(routes[k], q.method) # {}}
\* Those among `reaching` whose handler returns a value that is not absent.
Answering(q, reaching) ==
    {k \in reaching : \E h \in HandlerFor(routes[k], q.method) : ~Nullish(HandlerResult(h))}
\* The positions in `reaching` up to the first of `answering`.
UpToFirst(reaching, answering) == {k \in reaching : \A a \in answering : k <= a}
\* The positions of the routes whose handler ran for a request.
Ran(q) == {q.invoked[j].route : j \in 1..Len(q.invoked)}

\* C1 as stated: whenever a switcher over three routes handles a path that its
\* first and its third route both match, the handler of the first route is
\* the only one that runs, whatever it returns.
C1_OnlyFirstHandlerRuns ==
    \A r \in Requests :
        (/\ req[r].pc \in {"routed", "done"}
         /\ Len(routes) = 3
         /\ WouldMatch(routes[1], req[r].path)
         /\ WouldMatch(routes[3], req[r].path))
            => Ran(req[r]) = {1}

\* C1 as amended: the handlers that run are, in route order, those of the
\* routes that match the path and have a handler for the method, up to and
\* including the first one whose handler returns a value that is not absent;
\* no handler of a later route runs, and that value is the switcher's result
\* (an absent one when every handler that ran returned an absent value).
C1_FirstAnswerWins ==
    \A r \in Requests :
        req[r].pc \in {"routed", "done"} =>
            /\ \E reaching \in {Reaching(req[r])} :
                    Ran(req[r]) = UpToFirst(reaching, Answering(req[r], reaching))
            /\ \A i, j \in 1..Len(req[r].invoked) :
                    i < j => req[r].invoked[i].route < req[r].invoked[j].route
            /\ \A j \in 1..Len(req[r].invoked) :
                    /\ j < Len(req[r].invoked) => Nullish(req[r].invoked[j].call.ret)
                    /\ ~Nullish(req[r].invoked[j].call.ret)
                            => req[r].ret = req[r].invoked[j].call.ret
            /\ (\A j \in 1..Len(req[r].invoked) : Nullish(req[r].invoked[j].call.ret))
                    => Nullish(req[r].ret)

\* A request whose path the first and the third of three routes match, where
\* the first handler returned undefined and the third one ran.
C1_Witness ==
    \E r \in Requests :
        /\ req[r].pc = "routed"
        /\ Len(routes) = 3
        /\ WouldMatch(routes[1], req[r].path)
        /\ WouldMatch(routes[3], req[r].path)
        /\ 1 \in Ran(req[r])
        /\ 3 \in Ran(req[r])
        /\ req[r].ret = <<"value">>

C4_MethodMapDispatch ==
    \A r \in Requests :
        req[r].pc \in {"routed", "done"} =>
            \A n \in 1..Len(req[r].tried) :
                (/\ routes[req[r].tried[n]].handlers.kind = "object"
                 /\ WouldMatch(routes[req[r].tried[n]], req[r].path))
                    => IF req[r].method \in DOMAIN routes[req[r].tried[n]].handlers.map
                       THEN \E j \in 1..Len(req[r].invoked) :
                                /\ req[r].invoked[j].route = req[r].tried[n]
                                /\ req[r].invoked[j].call.id =
                                        routes[req[r].tried[n]].handlers.map[req[r].method].id
                                /\ req[r].invoked[j].call.params = [x \in {<<"x">>} |-> <<"v">>]
                                /\ \A i \in 1..Len(req[r].invoked) :
                                        req[r].invoked[i].route = req[r].tried[n] => i = j
                       ELSE /\ req[r].tried[n] \notin Ran(req[r])
                            /\ req[r].tried[n] < Len(routes)
                                    => /\ n < Len(req[r].tried)
                                       /\ req[r].tried[n + 1] = req[r].tried[n] + 1

\* A PUT request for /a/v met a route for /a/:<x> with a handler for GET
\* only, which did not run, and was answered by the route after it.
C4_Witness ==
    \E r \in Requests :
        /\ req[r].pc = "routed"
        /\ req[r].method = "PUT"
        /\ Len(routes) >= 2
        /\ routes[1].handlers.kind = "object"
        /\ WouldMatch(routes[1], req[r].path)
        /\ Ran(req[r]) = {2}
        /\ req[r].ret = <<"value">>

\* ------------------------------------------- properties of a route by itself

\* Whether a call was made on a route with one handler function.
CalledFunction == route.state = "ok" /\ call.n > 0 /\ route.rt.handlers.kind = "function"

\* Whether the call ran the handler once, with the parameters `params`.
RanWith(params) == Len(call.invoked) = 1 /\ call.invoked[1].params = params
\* Whether the call ran no handler and returned undefined.
RanNothing == call.invoked = <<>> /\ call.ret = Undefined

NameTags(name, tags) ==
    [n \in {<<"n", "a", "m", "e">>, <<"t", "a", "g", "s">>} |->
        IF n = <<"n", "a", "m", "e">> THEN name ELSE tags]

\* C5 as stated: /user/:<name>/:[tags] matches /user/bob, with name "bob" and
\* tags "".
C5_UserBobMatches ==
    (CalledFunction /\ route.rt.pattern = PatternOf(UserTags) /\ call.url = UserBob)
        => RanWith(NameTags(<<"b", "o", "b">>, <<>>))

\* C5 as amended: /user/:<name>/:[tags] does not match /user/bob; it matches
\* /user/bob/, with name "bob" and tags "", and /user/bob/x/y, with tags "x/y".
C5_UserBobSlashMatches ==
    (CalledFunction /\ route.rt.pattern = PatternOf(UserTags)) =>
        /\ call.url = UserBob => RanNothing
        /\ call.url = UserBobSlash => RanWith(NameTags(<<"b", "o", "b">>, <<>>))
        /\ call.url = UserBobXY => RanWith(NameTags(<<"b", "o", "b">>, <<"x", "/", "y">>))

\* /user/:<name>/:[tags] was called with /user/bob/ and ran its handler with
\* empty tags.
C5_Witness ==
    /\ CalledFunction
    /\ route.rt.pattern = PatternOf(UserTags)
    /\ call.url = UserBobSlash
    /\ Len(call.invoked) = 1
    /\ call.invoked[1].params[<<"t", "a", "g", "s">>] = <<>>

\* The parameter names of a composed pattern.
MarkerNames(shape) ==
    {shape.elems[i].v : i \in {j \in 1..Len(shape.elems) : shape.elems[j].k # "lit"}}

\* C6: every pattern composed of literal segments and markers of the four
\* forms with pairwise distinct names compiles, and its captures are the
\* parameters of its markers.
C6_MarkerSequencesCompile ==
    (route.state # "none" /\ route.composed /\ DistinctNames(route.shape))
        => /\ route.state = "ok"
           /\ route.rt.re.names = MarkerNames(route.shape)

\* Whether a call was made with a path built from the route's own pattern, on
\* a route with one handler function.
CalledBuilt == CalledFunction /\ call.built

\* C7 as stated: the path built from a pattern by substituting admissible
\* values for its parameters, with or without "/" at the end, is matched, and
\* the parameters extracted are the values substituted.
C7_RoundTrip ==
    CalledBuilt => RanWith(Expected(route.shape, call.vals))

\* Whether every marker of a pattern is of the form :<n>, and whether the
\* pattern has one marker only.
AllAngle(shape) == \A i \in 1..Len(shape.elems) : shape.elems[i].k \in {"lit", "angle"}
OneMarker(shape) == Cardinality({i \in 1..Len(shape.elems) : shape.elems[i].k # "lit"}) = 1

\* Whether the path of the call is the substituted path with nothing added.
NothingAdded == call.url = Substitute(route.shape, call.vals, FALSE)

\* C7 as amended: the round trip holds for the patterns (of literal segments
\* of letters) whose markers are all of the form :<n>, with pairwise distinct
\* names, the path taken with or without "/" at the end; and for the patterns
\* with a single marker, of any of the four forms, the path taken as
\* substituted, with no "/" added.
C7_RoundTripSegments ==
    (CalledBuilt /\ (AllAngle(route.shape) \/ (OneMarker(route.shape) /\ NothingAdded)))
        => RanWith(Expected(route.shape, call.vals))

\* A pattern of two :<n> markers was called with the path built from it and a
\* "/" added, and its handler ran with the values substituted.
C7_Witness ==
    /\ CalledBuilt
    /\ Len(route.shape.elems) = 2
    /\ \A i \in 1..2 : route.shape.elems[i].k = "angle"
    /\ ~route.shape.slash
    /\ EndsWithSlash(call.url)
    /\ RanWith(Expected(route.shape, call.vals))

\* C8: a pattern with a marker whose bracket is not closed, or with two
\* markers of the same name, makes createRoute raise; no route is returned.
C8_MalformedRejected ==
    (/\ route.state # "none"
     /\ \/ route.rt.pattern \in Unbalanced
        \/ (route.composed /\ ~DistinctNames(route.shape)))
        => route.state = "threw"

\* Whether a string holds the character "/".
HasSlash(v) == \E k \in 1..Len(v) : v[k] = "/"

\* The parameter of /hello/:<username>.
Username(v) == [n \in {<<"u", "s", "e", "r", "n", "a", "m", "e">>} |-> v]

\* C10: whatever a :<n> marker captures is one path segment, not empty and
\* without "/"; /hello/:<username> matches /hello/freesia and /hello/freesia/
\* with username "freesia", and matches neither /hello/freesia/13 nor /hello/.
C10_AngleOneSegment ==
    /\ (CalledFunction /\ route.composed) =>
            \A j \in 1..Len(call.invoked) :
                \A i \in 1..Len(route.shape.elems) :
                    route.shape.elems[i].k = "angle" =>
                        /\ call.invoked[j].params[route.shape.elems[i].v] # Undefined
                        /\ call.invoked[j].params[route.shape.elems[i].v] # <<>>
                        /\ ~HasSlash(call.invoked[j].params[route.shape.elems[i].v])
    /\ (CalledFunction /\ route.rt.pattern = PatternOf(HelloUser)) =>
            /\ call.url = HelloFreesia => RanWith(Username(Slice(HelloFreesia, 7)))
            /\ call.url = HelloFreesiaSlash => RanWith(Username(Slice(HelloFreesia, 7)))
            /\ call.url = HelloFreesia13 => RanNothing
            /\ call.url = HelloSlash => RanNothing

\* /hello/:<username> was called with /hello/freesia/ and ran its handler
\* with username "freesia".
C10_Witness ==
    /\ CalledFunction
    /\ route.rt.pattern = PatternOf(HelloUser)
    /\ call.url = HelloFreesiaSlash
    /\ RanWith(Username(<<"f", "r", "e", "e", "s", "i", "a">>))

\* ------------------------------------------- properties of repeated calls

\* What a call of the route returns and runs when no call was made before.
FirstCall(url, method) ==
    RouteCall([route.rt EXCEPT !.re.lastIndex = 0], url, <<NewFrame(0, method, url)>>, 0)

\* C9: whatever calls were made on a route before, a call returns and runs
\* what the first call with that path returns and runs.
C9_SameResultEveryCall ==
    (route.state = "ok" /\ call.n > 0) =>
        \E first \in {FirstCall(call.url, call.method)} :
            /\ call.ret = first.ret
            /\ call.invoked = first.invoked

\* ------------------------------------------- properties of the greedy markers

\* The pattern of a shape with the marker at position i written in the form k,
\* compiled with the default flags.
CompiledAs(shape, i, k) == createRegExp(PatternOf(WithKind(shape, i, k)), DefaultFlags)
\* What the call's path gives when matched by the RegExp re.
MatchOf(re, url) == RegExpExec([re EXCEPT !.lastIndex = 0], url)
\* The positions of the markers of form k in a shape.
MarkersOf(shape, k) == {i \in 1..Len(shape.elems) : shape.elems[i].k = k}

\* Whether the route matched the call's path with the groups of m, and m holds
\* a value that is not empty for the parameter n.
SameButEmpty(m, n) ==
    IF m.matched /\ m.groups[n] # <<>>
    THEN RanWith(m.groups)
    ELSE RanNothing

\* C11: for every pattern with a :{n} marker, the same pattern with :[n]
\* compiles too, and both match the same paths with the same parameters, but
\* for the paths that :[n] matches with n = "", which :{n} does not match.
C11_GreedyDifferOnEmpty ==
    (CalledFunction /\ route.composed /\ DistinctNames(route.shape)) =>
        \A i \in MarkersOf(route.shape, "brace") :
            \A sibling \in {CompiledAs(route.shape, i, "bracket")} :
                /\ ~sibling.threw
                /\ SameButEmpty(MatchOf(sibling, call.url), route.shape.elems[i].v)

\* Whether a pattern ends in /:(n).
EndsInParen(shape) ==
    shape.elems # <<>> /\ shape.elems[Len(shape.elems)].k = "paren" /\ ~shape.slash

\* C12: every pattern that ends in /:(n) compiles; it matches the path built
\* from it with n and the "/" before it left out, and n is undefined then; and
\* it matches every path that the same pattern with :[n] matches.
\* /hello/:(username) matches /hello with username undefined, /hello/ with
\* username "", and /hello/a/b with username "a/b".
C12_ParenOmitted ==
    /\ (route.state # "none" /\ route.composed /\ DistinctNames(route.shape)
            /\ EndsInParen(route.shape))
        => /\ route.state = "ok"
           /\ (CalledBuilt /\ NothingAdded /\ call.vals[Len(call.vals)] = Undefined)
                => /\ Len(call.invoked) = 1
                   /\ call.invoked[1].params[route.shape.elems[Len(call.vals)].v] = Undefined
           /\ CalledFunction
                => \A sibling \in {CompiledAs(route.shape, Len(route.shape.elems), "bracket")} :
                        (~sibling.threw /\ MatchOf(sibling, call.url).matched)
                            => Len(call.invoked) = 1
    /\ (CalledFunction /\ route.rt.pattern = PatternOf(HelloParen)) =>
            /\ call.url = Hello => RanWith(Username(Undefined))
            /\ call.url = HelloSlash => RanWith(Username(<<>>))
            /\ call.url = HelloAB => RanWith(Username(<<"a", "/", "b">>))

\* ------------------------------------------- properties of the anchoring

\* Where the route's RegExp finds its match in url: start and end (1-based,
\* end exclusive).
Span(rt, url) ==
    Search(rt.re.nodes, rt.re.names, url, 1, HasFlag(rt.re.flags, "i"), FALSE)
WholePath(m, url) == m.ok /\ m.start = 1 /\ m.end = Len(url) + 1

\* C13: a match of a route always spans the whole path. A pattern that does
\* not end in "/" that matches a path without "/" at the end also matches
\* that path with one "/" appended; a pattern that ends in "/" matches only
\* paths that end in "/".
C13_TrailingSlashOptional ==
    (route.state = "ok" /\ call.n > 0 /\ call.invoked # <<>>) =>
        /\ WholePath(Span(route.rt, call.url), call.url)
        /\ (~EndsWithSlash(route.rt.pattern) /\ ~EndsWithSlash(call.url))
                => WouldMatch(route.rt, call.url \o <<"/">>)
        /\ EndsWithSlash(route.rt.pattern) => EndsWithSlash(call.url)

\* The route /hello/:<username> ran its handler for /hello/freesia, and
\* matches /hello/freesia/ too.
C13_Witness ==
    /\ CalledFunction
    /\ route.rt.pattern = PatternOf(HelloUser)
    /\ call.url = HelloFreesia
    /\ Len(call.invoked) = 1
    /\ WouldMatch(route.rt, HelloFreesiaSlash)

\* ------------------------------------------- properties of the chain

\* Whether every route() call was made on the chain object returned last:
\* the chain createSwRt().route(p1, h1)...route(pN, hN).
Linear == \A k \in 1..Len(builder.chains) : builder.chains[k].parent = k - 1
\* Whether a switcher of a chain so built was called.
ChainCalled == builder.state = "made" /\ builder.last.n = 1 /\ Linear

\* The positions, among the route() calls `given`, of the patterns that match
\* the pathname of url, and of those whose handler returns a value.
MatchingGiven(given, url) ==
    {k \in 1..Len(given) : MatchOf(createRegExpOlder(given[k].pattern), Pathname(url)).matched}
AnsweringGiven(given, matching) ==
    {k \in matching : ~Nullish(HandlerResult(given[k].handler))}
\* The positions of the routes whose handler ran in the switcher call.
RanChain == {builder.last.invoked[j].route : j \in 1..Len(builder.last.invoked)}
\* Whether the handlers that ran are those of the route() calls `given` at the
\* positions `ran`, in that order, each called once.
RanGiven(given, ran) ==
    /\ RanChain = ran
    /\ Len(builder.last.invoked) = Cardinality(ran)
    /\ \A i, j \in 1..Len(builder.last.invoked) :
            i < j => builder.last.invoked[i].route < builder.last.invoked[j].route
    /\ \A j \in 1..Len(builder.last.invoked) :
            /\ builder.last.invoked[j].route \in 1..Len(given)
            /\ builder.last.invoked[j].call.id = given[builder.last.invoked[j].route].handler.id
\* The value the switcher returns when the handlers at `ran` ran: that of the
\* last of them, null when none ran.
ResultGiven(given, ran) ==
    IF ran = {} THEN Null ELSE HandlerResult(given[Greatest(ran)].handler)

\* C14 as stated: the switcher of the chain object obtained after N route()
\* calls, whenever it is called, dispatches over the routes of those N calls
\* in their order, and the first of them that matches the url wins: its
\* handler is the only one that runs.
C14_FirstMatchWins ==
    ChainCalled =>
        \E given \in {builder.chains[builder.last.chain].given} :
            \E matching \in {MatchingGiven(given, builder.last.url)} :
                /\ Len(given) = builder.last.chain - 1
                /\ RanGiven(given, {k \in matching : \A m \in matching : k <= m})

\* C14 as amended: the switcher of the chain object obtained after N route()
\* calls, whenever it is called, dispatches over the routes of those N calls
\* in their order: the handlers that run are those of the matching routes up
\* to and including the first one that returns a value other than null, and
\* that value is the result; route() calls made later add nothing.
C14_ChainConsistent ==
    ChainCalled =>
        \E given \in {builder.chains[builder.last.chain].given} :
            \E matching \in {MatchingGiven(given, builder.last.url)} :
                \E ran \in {UpToFirst(matching, AnsweringGiven(given, matching))} :
                    /\ Len(given) = builder.last.chain - 1
                    /\ RanGiven(given, ran)
                    /\ builder.last.ret = ResultGiven(given, ran)

\* The switcher obtained after two of three route() calls was called after
\* the third: the first handler returned null, the second answered.
C14_Witness ==
    /\ ChainCalled
    /\ Len(builder.chains) = 4
    /\ builder.last.chain = 3
    /\ builder.chains[4].given[3].handler.id = "one"
    /\ RanChain = {1, 2}
    /\ builder.last.ret = <<"rest">>

\* ------------------------------------------- properties of Respond

\* The values supplied so far for a part of the Respond, in their order: by
\* the arguments of create (those for which `fits` holds), then by the calls
\* of the setter op.
SetBy(op) ==
    [j \in 1..Len(SelectSeq(respond.calls, LAMBDA c : c.op = op)) |->
        SelectSeq(respond.calls, LAMBDA c : c.op = op)[j].v]
SuppliedCodes == SelectSeq(respond.args, LAMBDA v : v[1] = "number") \o SetBy("setStatusCode")
SuppliedBodies == SelectSeq(respond.args, IsBody) \o SetBy("setBody")
\* The last of the values supplied, Undefined when there is none.
LastOf(supplied) == IF supplied = <<>> THEN Undefined ELSE supplied[Len(supplied)]
\* The status code a Respond is to have for the codes and bodies supplied.
DefaultedCode(codes, bodies) ==
    IF codes # <<>> THEN LastOf(codes)[2] ELSE IF bodies # <<>> THEN 200 ELSE 404

\* C15: a Respond for which a body (a string, the empty one too, a Buffer or
\* a Stream) and no status code was supplied has statusCode 200; one with
\* neither has 404; one with a status code supplied has that code.
C15_StatusDefaulting ==
    respond.state = "made" =>
        statusCode(respond.r) = DefaultedCode(SuppliedCodes, SuppliedBodies)

\* The left-to-right fold of header layers, stated by key: the keys of all
\* layers, each with the value of the last layer that has it.
LastWith(layers, k) == Greatest({j \in 1..Len(layers) : k \in DOMAIN layers[j]})
Folded(layers) ==
    [k \in UNION {DOMAIN layers[j] : j \in 1..Len(layers)} |-> layers[LastWith(layers, k)][k]]

\* C16: whatever header layers were supplied, to create and to setHeaders
\* calls, the headers of the Respond are their left-to-right fold: each key
\* has the value of the last layer that holds it, and keys of earlier layers
\* only are kept.
C16_HeaderOverride ==
    respond.state = "made" =>
        /\ DOMAIN respond.r.headers = UNION {DOMAIN respond.layers[j] : j \in 1..Len(respond.layers)}
        /\ \A k \in DOMAIN respond.r.headers : respond.r.headers[k] = Folded(respond.layers)[k]

\* The layers {A: "1", B: "2"} and {A: "3"} were supplied, the second by a
\* setHeaders call, and the headers are {A: "3", B: "2"}.
C16_Witness ==
    /\ respond.state = "made"
    /\ respond.layers = <<[A |-> "1", B |-> "2"], [A |-> "3"]>>
    /\ \E j \in 1..Len(respond.calls) : respond.calls[j].op = "setHeaders"
    /\ DOMAIN respond.r.headers = {"A", "B"}
    /\ respond.r.headers["A"] = "3"
    /\ respond.r.headers["B"] = "2"

\* C17: the Respond that create returns carries the parts supplied, each
\* argument taken by its shape: the body is the string, Buffer or Stream
\* argument, the status code the number, the headers the plain objects; a
\* part not supplied is at its default: no body, no headers, and the
\* status code 200 with a body and 404 without.
C17_CreateByShape ==
    (respond.state = "made" /\ respond.calls = <<>>) =>
        /\ respond.r.body = LastOf(SelectSeq(respond.args, IsBody))
        /\ DOMAIN respond.r.headers = DOMAIN Folded(LayersOf(respond.args))
        /\ \A k \in DOMAIN respond.r.headers :
                respond.r.headers[k] = Folded(LayersOf(respond.args))[k]
        /\ respond.r.statusMessage = Undefined
        /\ statusCode(respond.r) =
                DefaultedCode(SelectSeq(respond.args, LAMBDA v : v[1] = "number"),
                              SelectSeq(respond.args, IsBody))

\* ------------------------------------------- properties of urls with a query

\* Whether a url has a query string, and the url without it.
HasQuery(url) == \E k \in 1..Len(url) : url[k] = "?"
WithoutQuery(url) == SubSeq(url, 1, Least({k \in 1..Len(url) : url[k] = "?"}) - 1)
\* What a route of the older router returns and runs for a url.
FirstCallOlder(url) == RouteCallOlder(route.rt, url)
\* Whether the call ran and returned what `bare` did.
SameAs(bare) == call.ret = bare.ret /\ call.invoked = bare.invoked

\* C18: a route called with a url that has a query string runs and returns
\* what it does for the url without the query string: it matches when the
\* path matches, with the same parameters. This holds of the routes of
\* createRoute and of those of the older router's createRoute.
C18_QueryNotMatched ==
    /\ (route.state = "ok" /\ call.n > 0 /\ HasQuery(call.url))
            => SameAs(FirstCall(WithoutQuery(call.url), call.method))
    /\ (route.state = "older" /\ call.n > 0 /\ HasQuery(call.url))
            => SameAs(FirstCallOlder(WithoutQuery(call.url)))

\* ------------------------------------------- properties of createWrapper

\* The positions in the events of the last call where a function of the given
\* name was called.
EventsOf(name) == {j \in 1..Len(wrapper.events) : wrapper.events[j][1] = name}
\* What the call is to give for the hook's tuple t: the given function's value
\* when t starts with null, else the after-hook's value for what fn returns,
\* or what fn returns when t has no after-hook.
ExpectedOf(t, fn) ==
    IF t.p = Null THEN Returned(t.after, <<"fallback">>)
    ELSE IF t.after = "none" THEN Returned(fn, <<"fn", t.p>>)
    ELSE Returned(t.after, <<"after", Returned(fn, <<"fn", t.p>>)>>)
\* What the call has returned: the value itself with a synchronous hook, a
\* Promise settled to it with an asynchronous one.
Gives(v) ==
    wrapper.result = IF wrapper.hook = "async" THEN Promise(Adopted(v)) ELSE v

\* C19: in every call of a wrapped function the hook runs first, with the
\* arguments of the call, and fn does not run before the hook has completed.
\* Once the call has completed: if the hook's tuple starts with null, fn was
\* not called and the result is what the tuple's second element returns; if
\* not, fn was called once, after the hook, with the hook's parameters, and
\* the result is the after-hook's value for what fn returned (what fn
\* returned, without an after-hook).
C19_HookFirst ==
    (wrapper.state # "none" /\ wrapper.n > 0) =>
        /\ wrapper.events[1] = <<"hook", wrapper.args>>
        /\ EventsOf("hook") = {1}
        /\ wrapper.state = "pending" => Len(wrapper.events) = 1
        /\ wrapper.state = "idle" =>
                /\ EventsOf("hooked") = {2}
                /\ Gives(ExpectedOf(wrapper.tuple, wrapper.fn))
                /\ IF wrapper.tuple.p = Null
                   THEN EventsOf("fn") = {} /\ EventsOf("after") = {}
                            /\ EventsOf("fallback") = {3}
                   ELSE /\ EventsOf("fn") = {3}
                        /\ wrapper.events[3] = <<"fn", wrapper.tuple.p>>
                        /\ EventsOf("fallback") = {}
                        /\ EventsOf("after") = IF wrapper.tuple.after = "none" THEN {} ELSE {4}

\* A call with an asynchronous hook has completed: fn ran after the hook with
\* the hook's parameters, and the Promise returned holds the after-hook's
\* value.
C19_Witness ==
    /\ wrapper.state = "idle"
    /\ wrapper.n > 0
    /\ wrapper.hook = "async"
    /\ wrapper.tuple = HookTuple(<<"p", "q">>, "sync")
    /\ wrapper.fn = "sync"
    /\ wrapper.events = <<<<"hook", wrapper.args>>, <<"hooked">>, <<"fn", <<"p", "q">>>>, <<"after">>>>
    /\ wrapper.result = Promise(<<"after", <<"fn", <<"p", "q">>>>>>)

\* ------------------------------------------- properties of the method read

\* A route of createRoute or of createRouteX built from one handler function
\* has been called.
CalledHandlerFunction ==
    /\ route.state \in {"ok", "extra"}
    /\ call.n > 0
    /\ route.rt.handlers.kind = "function"

\* C20: a call of a route built by createRoute or createRouteX from one
\* handler function reads no method from the Context Store, whether the path
\* matched or not.
C20_FunctionReadsNoMethod == CalledHandlerFunction => call.methods = <<>>

\* ------------------------------------------- properties of branching chains

\* Whether the switcher of the chain object c holds the routes of exactly the
\* route() calls that led to c, in their order.
HoldsOwnRoutes(c) ==
    /\ Len(builder.chains[c].switcher) = Len(builder.chains[c].given)
    /\ \A j \in 1..Len(builder.chains[c].switcher) :
            /\ j <= Len(builder.chains[c].given)
            /\ builder.chains[c].switcher[j].pattern = builder.chains[c].given[j].pattern
            /\ builder.chains[c].switcher[j].handlers.fn = builder.chains[c].given[j].handler

\* C21: the chain objects are independent values. Whatever chain object each
\* route() call was made on, the switcher of a chain object holds the routes
\* of its own line of route() calls and no other, and when it is called only
\* handlers of that line run: a route registered by another route() call on
\* the same chain object is not dispatched.
C21_BuildersIndependent ==
    builder.state = "made" =>
        /\ \A c \in 1..Len(builder.chains) : HoldsOwnRoutes(c)
        /\ builder.last.n = 1 =>
                \E given \in {builder.chains[builder.last.chain].given} :
                    \E matching \in {MatchingGiven(given, builder.last.url)} :
                        \E ran \in {UpToFirst(matching, AnsweringGiven(given, matching))} :
                            /\ RanGiven(given, ran)
                            /\ builder.last.ret = ResultGiven(given, ran)

\* ------------------------------------------- properties of the setters

\* Whether the step is a call of the setter op on the Respond.
SetterStep(op) ==
    /\ respond.state = "made"
    /\ respond'.state = "made"
    /\ Len(respond'.calls) = Len(respond.calls) + 1
    /\ respond'.calls[Len(respond'.calls)].op = op

\* C22: after any sequence of setter calls on a Respond, statusCode is the
\* code of the last setStatusCode call when there was one, whatever bodies
\* and headers were set before or after it; and a call of setBody, of
\* setHeaders or of setStatusMessage changes the field it sets and leaves
\* the stored status code and the other stored fields as they were.
C22_ExplicitCodeKept ==
    /\ []((respond.state = "made" /\ SetBy("setStatusCode") # <<>>) =>
            statusCode(respond.r) = LastOf(SetBy("setStatusCode"))[2])
    /\ [][/\ SetterStep("setBody") =>
                /\ respond'.r.statusCode = respond.r.statusCode
                /\ respond'.r.statusMessage = respond.r.statusMessage
                /\ respond'.r.headers = respond.r.headers
          /\ SetterStep("setHeaders") =>
                /\ respond'.r.statusCode = respond.r.statusCode
                /\ respond'.r.statusMessage = respond.r.statusMessage
                /\ respond'.r.body = respond.r.body
          /\ SetterStep("setStatusMessage") =>
                /\ respond'.r.statusCode = respond.r.statusCode
                /\ respond'.r.body = respond.r.body
                /\ respond'.r.headers = respond.r.headers]_vars

\* A Respond created without arguments got the code 500 and then a body: its
\* statusCode is 500, where the default for a Respond with a body is 200.
C22_Witness ==
    /\ respond.state = "made"
    /\ respond.args = <<Undefined, Undefined, Undefined>>
    /\ Len(respond.calls) = 2
    /\ respond.calls[1] = [op |-> "setStatusCode", v |-> Number(500)]
    /\ respond.calls[2] = [op |-> "setBody", v |-> String("hello")]
    /\ respond.r.body = String("hello")
    /\ statusCode(respond.r) = 500

====
